---- MODULE Spec2Model ----
(***************************************************************************)
(* Burns Legal MCP workers: the tool-dispatch and fallback-search layer.   *)
(*                                                                         *)
(* Workers modelled:                                                       *)
(*   part_002  (burns-legal-enhanced.ts: handleRpc, TOOLS, TOOL_IMPL)      *)
(*   full      (src/burns-legal-enhanced-full.ts: McpAgent tool handlers)  *)
(*   part_001  (BurnsLegalEnhancedComplete: McpAgent tool handlers)        *)
(*   index     (src/index.ts: BurnsLegalMCP and the /mcp endpoint)         *)
(*   fixed     (burns-legal-enhanced-fixed.js: session-handling worker)    *)
(*                                                                         *)
(* Strings that the code inspects character by character (resource ids)    *)
(* are sequences of one-character strings.                                 *)
(***************************************************************************)
EXTENDS Integers, Sequences, FiniteSets, TLC

VARIABLES
    env,      \* worker environment: [url, key] (SUPABASE_URL, SUPABASE_SERVICE_ROLE_KEY present)
    db,       \* upstream store: set of [table, key] records
    hits,     \* upstream search state: rows each search path finds for a non-blank query
    call,     \* the tool call handled last
    ret,      \* what its handler returned or threw
    gw,       \* gateway requests the handler issued, in order
    lookups,  \* fetch: lookup kinds the handler tried, in order
    rpcReq,   \* the HTTP POST handled last by a JSON-RPC endpoint
    rpcResp,  \* the response to it
    ran,      \* tool handlers executed while answering rpcReq, in order
    served    \* the calls one worker instance has answered so far, with their answers

vars == <<env, db, hits, call, ret, gw, lookups, rpcReq, rpcResp, ran, served>>

-----------------------------------------------------------------------------
(* Bounds *)

MaxRecords == 2   \* records in the upstream store
MaxRows == 2      \* rows a search request can return
MaxFaults == 1    \* gateway requests of one call that fail

-----------------------------------------------------------------------------
(* Character strings *)

UpperChars == <<"A","B","C","D","E","F","G","H","I","J","K","L","M",
                "N","O","P","Q","R","S","T","U","V","W","X","Y","Z">>
LowerChars == <<"a","b","c","d","e","f","g","h","i","j","k","l","m",
                "n","o","p","q","r","s","t","u","v","w","x","y","z">>
DigitChars == {"0","1","2","3","4","5","6","7","8","9"}

Range(s) == {s[i] : i \in DOMAIN s}
UpperSet == Range(UpperChars)
LowerSet == Range(LowerChars)

ToLowerChar(c) ==
    IF c \in UpperSet
    THEN LowerChars[CHOOSE i \in DOMAIN UpperChars : UpperChars[i] = c]
    ELSE c

ToLower(s) == [i \in DOMAIN s |-> ToLowerChar(s[i])]

StartsWith(s, p) == Len(s) >= Len(p) /\ SubSeq(s, 1, Len(p)) = p

\* /^p/i
StartsWithCI(s, p) == StartsWith(ToLower(s), ToLower(p))

\* /^\d+$/
AllDigits(s) == Len(s) >= 1 /\ \A i \in DOMAIN s : s[i] \in DigitChars

RECURSIVE Flatten(_)
Flatten(ss) == IF ss = <<>> THEN <<>> ELSE Head(ss) \o Flatten(Tail(ss))

\* encodeURIComponent: unreserved characters are kept, the rest become %XX
UriUnreserved(c) ==
    \/ c \in UpperSet \/ c \in LowerSet \/ c \in DigitChars
    \/ c \in {"-", "_", ".", "!", "~", "*", "'", "(", ")"}

PctOf(c) ==
    IF c = " " THEN <<"%", "2", "0">>
    ELSE IF c = "%" THEN <<"%", "2", "5">>
    ELSE <<c>>

encodeURIComponent(s) ==
    Flatten([i \in DOMAIN s |-> IF UriUnreserved(s[i]) THEN <<s[i]>> ELSE PctOf(s[i])])

\* URLSearchParams.toString(): application/x-www-form-urlencoded serialisation
FormKept(c) ==
    \/ c \in UpperSet \/ c \in LowerSet \/ c \in DigitChars
    \/ c \in {"*", "-", ".", "_"}

FormEncode(s) ==
    Flatten([i \in DOMAIN s |->
        IF FormKept(s[i]) THEN <<s[i]>>
        ELSE IF s[i] = " " THEN <<"+">> ELSE PctOf(s[i])])

\* the gateway's HTTP layer decodes a query string once
RECURSIVE PercentDecode(_)
PercentDecode(s) ==
    IF s = <<>> THEN <<>>
    ELSE IF Len(s) >= 3 /\ SubSeq(s, 1, 3) = <<"%", "2", "0">>
         THEN <<" ">> \o PercentDecode(SubSeq(s, 4, Len(s)))
    ELSE IF Len(s) >= 3 /\ SubSeq(s, 1, 3) = <<"%", "2", "5">>
         THEN <<"%">> \o PercentDecode(SubSeq(s, 4, Len(s)))
    ELSE <<Head(s)>> \o PercentDecode(Tail(s))

FormDecode(s) == PercentDecode([i \in DOMAIN s |-> IF s[i] = "+" THEN " " ELSE s[i]])

\* a value placed in a URLSearchParams, as the gateway reads it
ViaSearchParams(s) == FormDecode(FormEncode(s))
\* a value interpolated into the URL, as the gateway reads it
ViaUrl(s) == PercentDecode(s)

-----------------------------------------------------------------------------
(* Resource ids and the upstream store *)

idEmpty  == <<>>
idEx042  == <<"E","x","0","4","2">>
idMn2    == <<"m","n","_","2">>
idClaim7 == <<"c","l","a","i","m","_","7">>
idNum    == <<"1","2","3">>
idFact9  == <<"f","a","c","t","_","9">>
idFACT9  == <<"F","A","C","T","_","9">>
idNine   == <<"9">>
idDoc1   == <<"d","o","c","1">>
\* what `${id}` and encodeURIComponent(id) make of an id that was not given
idUndefined == <<"u","n","d","e","f","i","n","e","d">>

Ids == {idEmpty, idEx042, idMn2, idClaim7, idNum, idFact9, idFACT9, idDoc1, idUndefined}

Tables == {"exhibits", "claims", "facts", "vector_embeddings"}

\* records the store may hold
RecordUniverse ==
    { [table |-> "exhibits", key |-> idEx042],
      [table |-> "claims", key |-> idEx042],
      [table |-> "claims", key |-> idClaim7],
      [table |-> "facts", key |-> idNine],
      [table |-> "vector_embeddings", key |-> idEx042],
      [table |-> "vector_embeddings", key |-> idDoc1] }

NoRec == [table |-> "none", key |-> <<>>]

Transport == {"ok", "http", "net"}

Configured(e) == e.url /\ e.key

\* One gateway row read: the rows of table t whose key is among the filter
\* values vals.  net is the transport outcome per table for this call; a
\* request without a credential is answered 401.
Gateway(e, d, net, t, vals) ==
    IF net[t] = "net" THEN [status |-> "net", rows |-> {}]
    ELSE IF net[t] = "http" \/ ~e.key THEN [status |-> "http", rows |-> {}]
    ELSE [status |-> "ok", rows |-> {r \in d : r.table = t /\ r.key \in vals}]

\* the stored procedures called under /rest/v1/rpc/
RpcProcedures ==
    {"rpc/vector_search", "rpc/semantic_exhibit_search", "rpc/calculate_claim_strength"}

\* a fetch() site that sends DELETE to the exhibits table
HttpMethodDeleting(t) ==
    IF t \in RpcProcedures THEN "POST" ELSE IF t = "exhibits" THEN "DELETE" ELSE "GET"

\* the `method` of the fetch() sites: "POST" at the rpc/ calls, left out (GET)
\* at the table requests
HttpMethod(t) == IF t \in RpcProcedures THEN "POST" ELSE "GET"

Req(t, vals) == [table |-> t, vals |-> vals, verb |-> HttpMethod(t)]

\* what one executed request does to the tables: GET reads, POST to a
\* procedure runs a search or a scoring, POST to a table inserts, DELETE
\* removes the rows its filter selects (every row of the table without one)
Executed(d, q) ==
    IF q.verb = "GET" \/ q.table \in RpcProcedures THEN d
    ELSE IF q.verb = "POST" THEN d \cup {[table |-> q.table, key |-> k] : k \in q.vals}
    ELSE {r \in d : ~(r.table = q.table /\ (q.vals = {} \/ r.key \in q.vals))}

RECURSIVE Upstream(_, _)
Upstream(d, reqs) ==
    IF reqs = <<>> THEN d ELSE Upstream(Executed(d, Head(reqs)), Tail(reqs))

\* `const data = await res.json(); return data[0] || null` after `if (!res.ok) return null`
\* (a failed fetch rejects, which the helpers do not catch)
FirstRow(res, t, vals) ==
    IF res.status = "net" THEN [gw |-> <<Req(t, vals)>>, st |-> "throw", rec |-> NoRec]
    ELSE IF res.status = "ok" /\ res.rows # {}
         THEN [gw |-> <<Req(t, vals)>>, st |-> "rec", rec |-> CHOOSE r \in res.rows : TRUE]
    ELSE [gw |-> <<Req(t, vals)>>, st |-> "null", rec |-> NoRec]

NotAsked == [gw |-> <<>>, st |-> "null", rec |-> NoRec]

-----------------------------------------------------------------------------
(* How the fetch code reads an id: its pattern tests and its filter values *)

\* /^(Ex|FL_|MN_)/i
IsExhibitId(id) ==
    \/ StartsWithCI(id, <<"E","x">>)
    \/ StartsWithCI(id, <<"F","L","_">>)
    \/ StartsWithCI(id, <<"M","N","_">>)

\* a claim test whose digit pattern lost its ^ anchor: /\d+$/
IsClaimIdUnanchored(id) ==
    \/ StartsWithCI(id, <<"c","l","a","i","m","_">>)
    \/ (Len(id) >= 1 /\ id[Len(id)] \in DigitChars)

\* /^claim_/i.test(id) || /^\d+$/.test(id)
IsClaimId(id) ==
    \/ StartsWithCI(id, <<"c","l","a","i","m","_">>)
    \/ AllDigits(id)

\* /^fact_/i
IsFactId(id) == StartsWithCI(id, <<"f","a","c","t","_">>)

\* id.replace(/^fact_/, '') is case-sensitive
StripFactPrefix(id) ==
    IF StartsWith(id, <<"f","a","c","t","_">>) THEN SubSeq(id, 6, Len(id)) ELSE id

\* the tests and filter values of every id, computed once
IdShape ==
    [id \in Ids |->
        [url |-> ViaUrl(encodeURIComponent(id)),
         exhibit |-> IsExhibitId(id),
         claim |-> IsClaimId(id),
         fact |-> IsFactId(id),
         param |-> ViaSearchParams(encodeURIComponent(id)),
         stripped |-> ViaSearchParams(encodeURIComponent(StripFactPrefix(id))),
         raw |-> ViaUrl(id)]]

-----------------------------------------------------------------------------
(* part_002: DB helpers *)

fetchExhibit(e, id, d, net) ==
    IF ~Configured(e) THEN NotAsked
    ELSE LET vals == {IdShape[id].param}
         IN FirstRow(Gateway(e, d, net, "exhibits", vals), "exhibits", vals)

fetchClaim(e, id, d, net) ==
    IF ~Configured(e) THEN NotAsked
    ELSE LET vals == {IdShape[id].param}
         IN FirstRow(Gateway(e, d, net, "claims", vals), "claims", vals)

fetchFact(e, id, d, net) ==
    IF ~Configured(e) THEN NotAsked
    ELSE LET vals == {IdShape[id].stripped, IdShape[id].param}
         IN FirstRow(Gateway(e, d, net, "facts", vals), "facts", vals)

fetchDoc(e, id, d, net) ==
    IF ~Configured(e) THEN NotAsked
    ELSE LET vals == {IdShape[id].url}
         IN FirstRow(Gateway(e, d, net, "vector_embeddings", vals), "vector_embeddings", vals)

-----------------------------------------------------------------------------
(* The universal fetch tool *)

\* results of a fetch handler
FetchReturn(id, type, error, rec, g, l) ==
    [gw |-> g, lookups |-> l, id |-> id, type |-> type,
     error |-> error, kind |-> "return", metadata |-> rec]
FetchThrow(id, g, l) ==
    [gw |-> g, lookups |-> l, id |-> id, type |-> "none",
     error |-> "fetch failed", kind |-> "throw", metadata |-> NoRec]

\* a fetch that keeps the record it found last and answers from it
TOOL_IMPL_fetch_Remembering(id, e, d, net) ==
    IF served # <<>> /\ served[Len(served)].tool = "fetch"
                     /\ served[Len(served)].type # "none"
    THEN FetchReturn(id, served[Len(served)].type, "", served[Len(served)].metadata,
                     <<>>, <<>>)
    ELSE
    LET doc == fetchDoc(e, id, d, net)
    IN IF doc.st = "throw" THEN FetchThrow(id, doc.gw, <<"document">>)
       ELSE IF doc.st = "rec"
            THEN FetchReturn(id, "document", "", doc.rec, doc.gw, <<"document">>)
       ELSE
       LET ex == fetchExhibit(e, id, d, net)
       IN IF ex.st = "throw" THEN FetchThrow(id, doc.gw \o ex.gw, <<"document", "exhibit">>)
          ELSE IF ex.st = "rec"
               THEN FetchReturn(id, "exhibit", "", ex.rec, doc.gw \o ex.gw,
                                <<"document", "exhibit">>)
          ELSE FetchReturn(id, "none", "Resource not found", NoRec, doc.gw \o ex.gw,
                           <<"document", "exhibit">>)

\* part_002 TOOL_IMPL.fetch
TOOL_IMPL_fetch(id, e, d, net) ==
    IF id = <<>> THEN FetchReturn(id, "none", "id is required", NoRec, <<>>, <<>>)
    ELSE
    LET tryEx == IdShape[id].exhibit
        ex == IF tryEx THEN fetchExhibit(e, id, d, net) ELSE NotAsked
        l1 == IF tryEx THEN <<"exhibit">> ELSE <<>>
    IN
    IF ex.st = "throw" THEN FetchThrow(id, ex.gw, l1)
    ELSE IF ex.st = "rec" THEN FetchReturn(id, "exhibit", "", ex.rec, ex.gw, l1)
    ELSE
    LET tryCl == IdShape[id].claim
        cl == IF tryCl THEN fetchClaim(e, id, d, net) ELSE NotAsked
        l2 == IF tryCl THEN l1 \o <<"claim">> ELSE l1
        g2 == ex.gw \o cl.gw
    IN
    IF cl.st = "throw" THEN FetchThrow(id, g2, l2)
    ELSE IF cl.st = "rec" THEN FetchReturn(id, "claim", "", cl.rec, g2, l2)
    ELSE
    LET tryFa == IdShape[id].fact
        fa == IF tryFa THEN fetchFact(e, id, d, net) ELSE NotAsked
        l3 == IF tryFa THEN l2 \o <<"fact">> ELSE l2
        g3 == g2 \o fa.gw
    IN
    IF fa.st = "throw" THEN FetchThrow(id, g3, l3)
    ELSE IF fa.st = "rec" THEN FetchReturn(id, "fact", "", fa.rec, g3, l3)
    ELSE
    LET doc == fetchDoc(e, id, d, net)
        l4 == l3 \o <<"document">>
        g4 == g3 \o doc.gw
    IN
    IF doc.st = "throw" THEN FetchThrow(id, g4, l4)
    ELSE IF doc.st = "rec" THEN FetchReturn(id, "document", "", doc.rec, g4, l4)
    ELSE FetchReturn(id, "none", "Resource not found", NoRec, g4, l4)

\* the lookups written inline in the McpAgent handlers: no configuration
\* check, `if (res.ok) { const data = await res.json(); if (data[0]) return ... }`
InlineLookup(e, d, net, t, vals) == FirstRow(Gateway(e, d, net, t, vals), t, vals)

\* src/burns-legal-enhanced-full.ts, tool "fetch"
BurnsLegalEnhanced_fetch(id, e, d, net) ==
    IF id = <<>> THEN FetchReturn(id, "none", "id is required", NoRec, <<>>, <<>>)
    ELSE
    LET tryEx == IdShape[id].exhibit
        ex == IF tryEx
              THEN InlineLookup(e, d, net, "exhibits", {IdShape[id].param})
              ELSE NotAsked
        l1 == IF tryEx THEN <<"exhibit">> ELSE <<>>
    IN
    IF ex.st = "throw" THEN FetchThrow(id, ex.gw, l1)
    ELSE IF ex.st = "rec" THEN FetchReturn(id, "exhibit", "", ex.rec, ex.gw, l1)
    ELSE
    LET tryCl == IdShape[id].claim
        cl == IF tryCl
              THEN InlineLookup(e, d, net, "claims", {IdShape[id].param})
              ELSE NotAsked
        l2 == IF tryCl THEN l1 \o <<"claim">> ELSE l1
        g2 == ex.gw \o cl.gw
    IN
    IF cl.st = "throw" THEN FetchThrow(id, g2, l2)
    ELSE IF cl.st = "rec" THEN FetchReturn(id, "claim", "", cl.rec, g2, l2)
    ELSE
    LET tryFa == IdShape[id].fact
        fa == IF tryFa
              THEN InlineLookup(e, d, net, "facts",
                                {IdShape[id].stripped, IdShape[id].param})
              ELSE NotAsked
        l3 == IF tryFa THEN l2 \o <<"fact">> ELSE l2
        g3 == g2 \o fa.gw
    IN
    IF fa.st = "throw" THEN FetchThrow(id, g3, l3)
    ELSE IF fa.st = "rec" THEN FetchReturn(id, "fact", "", fa.rec, g3, l3)
    ELSE
    LET doc == InlineLookup(e, d, net, "vector_embeddings", {IdShape[id].url})
        l4 == l3 \o <<"document">>
        g4 == g3 \o doc.gw
    IN
    IF doc.st = "throw" THEN FetchThrow(id, g4, l4)
    ELSE IF doc.st = "rec" THEN FetchReturn(id, "document", "", doc.rec, g4, l4)
    ELSE FetchReturn(id, "none", "Resource not found", NoRec, g4, l4)

\* part_001 (BurnsLegalEnhancedComplete), tool "fetch": exhibit and claim only
BurnsLegalEnhancedComplete_fetch(id, e, d, net) ==
    IF id = <<>> THEN FetchReturn(id, "none", "id is required", NoRec, <<>>, <<>>)
    ELSE
    LET tryEx == IdShape[id].exhibit
        ex == IF tryEx
              THEN InlineLookup(e, d, net, "exhibits", {IdShape[id].param})
              ELSE NotAsked
        l1 == IF tryEx THEN <<"exhibit">> ELSE <<>>
    IN
    IF ex.st = "throw" THEN FetchThrow(id, ex.gw, l1)
    ELSE IF ex.st = "rec" THEN FetchReturn(id, "exhibit", "", ex.rec, ex.gw, l1)
    ELSE
    LET tryCl == IdShape[id].claim
        cl == IF tryCl
              THEN InlineLookup(e, d, net, "claims", {IdShape[id].param})
              ELSE NotAsked
        l2 == IF tryCl THEN l1 \o <<"claim">> ELSE l1
        g2 == ex.gw \o cl.gw
    IN
    IF cl.st = "throw" THEN FetchThrow(id, g2, l2)
    ELSE IF cl.st = "rec" THEN FetchReturn(id, "claim", "", cl.rec, g2, l2)
    ELSE FetchReturn(id, "none", "Resource not found", NoRec, g2, l2)

-----------------------------------------------------------------------------
(* Search: vector attempt, keyword fallback *)

Whitespace == {" "}

RECURSIVE TrimStart(_)
TrimStart(s) == IF s # <<>> /\ Head(s) \in Whitespace THEN TrimStart(Tail(s)) ELSE s

RECURSIVE TrimEnd(_)
TrimEnd(s) ==
    IF s # <<>> /\ s[Len(s)] \in Whitespace THEN TrimEnd(SubSeq(s, 1, Len(s) - 1)) ELSE s

\* String.prototype.trim
Trim(s) == TrimEnd(TrimStart(s))

\* !query?.trim()
IsBlank(q) == Trim(q) = <<>>

qEmpty == <<>>
qSpace == <<" ">>
qLease == <<"l","e","a","s","e">>
Queries == {qEmpty, qSpace, qLease}

Absent == "(absent)"

\* One search request to the gateway on path p: a network failure, a non-2xx
\* status (401 without a credential), or the rows the upstream state holds.
GatewaySearch(e, h, net, p) ==
    IF net[p] = "net" THEN [status |-> "net", rows |-> <<>>]
    ELSE IF net[p] = "http" \/ ~e.key THEN [status |-> "http", rows |-> <<>>]
    ELSE [status |-> "ok", rows |-> [i \in 1..h[p] |-> i]]

NetworkMessage == "Network connection lost"

\* rows.map(r => ({id, type, title, snippet, similarity}))
NormalizeVector(rows) == [i \in DOMAIN rows |-> [type |-> "document", row |-> rows[i]]]
\* docs.map(d => ({id, type: "exhibit", title, snippet}))
NormalizeKeyword(rows) == [i \in DOMAIN rows |-> [type |-> "exhibit", row |-> rows[i]]]

SafeOk(results, g) ==
    [gw |-> g, error |-> Absent, results |-> results, ok |-> TRUE, resultCount |-> Len(results)]
SafeFail(error, g) ==
    [gw |-> g, error |-> error, results |-> <<>>, ok |-> FALSE, resultCount |-> 0]

\* safeVector with a failed request sent a second time
safeVectorRetrying(e, query, h, net) ==
    IF IsBlank(query) THEN SafeFail("query is required", <<>>)
    ELSE IF ~Configured(e) THEN SafeOk(<<>>, <<>>)
    ELSE LET res == GatewaySearch(e, h, net, "vector")
             g == <<Req("rpc/vector_search", {query})>>
         IN IF res.status = "net" THEN SafeFail(NetworkMessage, g \o g)
            ELSE IF res.status = "http" THEN SafeFail("Vector search failed: 500", g \o g)
            ELSE SafeOk(NormalizeVector(res.rows), g)

\* part_002 safeVector
safeVector(e, query, h, net) ==
    IF IsBlank(query) THEN SafeFail("query is required", <<>>)
    ELSE IF ~Configured(e) THEN SafeOk(<<>>, <<>>)
    ELSE LET res == GatewaySearch(e, h, net, "vector")
             g == <<Req("rpc/vector_search", {query})>>
         IN IF res.status = "net" THEN SafeFail(NetworkMessage, g)
            ELSE IF res.status = "http" THEN SafeFail("Vector search failed: 500", g)
            ELSE SafeOk(NormalizeVector(res.rows), g)

\* part_002 safeKeyword
safeKeyword(e, query, h, net) ==
    IF IsBlank(query) THEN SafeFail("query is required", <<>>)
    ELSE IF ~Configured(e) THEN SafeOk(<<>>, <<>>)
    ELSE LET res == GatewaySearch(e, h, net, "keyword")
             g == <<Req("exhibits", {ViaSearchParams(encodeURIComponent(query))})>>
         IN IF res.status = "net" THEN SafeFail(NetworkMessage, g)
            ELSE IF res.status = "http" THEN SafeFail("Keyword search failed: 500", g)
            ELSE SafeOk(NormalizeKeyword(res.rows), g)

\* what a search handler returns or throws
SearchReturn(results, method, error, g) ==
    [gw |-> g, error |-> error, kind |-> "return",
     results |-> results, resultCount |-> Len(results), method |-> method]
SearchThrow(g) ==
    [gw |-> g, error |-> NetworkMessage, kind |-> "throw",
     results |-> <<>>, resultCount |-> 0, method |-> Absent]

\* v.error || k.error
OrElse(a, b) == IF a = Absent \/ a = "" THEN b ELSE a

\* TOOL_IMPL.search whose last return leaves the error out
TOOL_IMPL_search_ErrorDropped(query, e, h, net) ==
    IF IsBlank(query) THEN SearchReturn(<<>>, "none", "query is required", <<>>)
    ELSE
    LET v == safeVector(e, query, h, net) IN
    IF v.ok /\ v.resultCount > 0 THEN SearchReturn(v.results, "vector", Absent, v.gw)
    ELSE
    LET k == safeKeyword(e, query, h, net) IN
    IF k.ok THEN SearchReturn(k.results, "keyword", Absent, v.gw \o k.gw)
    ELSE SearchReturn(<<>>, IF v.ok THEN "vector" ELSE "keyword", Absent, v.gw \o k.gw)

\* part_002 TOOL_IMPL.search
TOOL_IMPL_search(query, e, h, net) ==
    IF IsBlank(query) THEN SearchReturn(<<>>, "none", "query is required", <<>>)
    ELSE
    LET v == safeVector(e, query, h, net) IN
    IF v.ok /\ v.resultCount > 0 THEN SearchReturn(v.results, "vector", Absent, v.gw)
    ELSE
    LET k == safeKeyword(e, query, h, net) IN
    IF k.ok THEN SearchReturn(k.results, "keyword", Absent, v.gw \o k.gw)
    ELSE SearchReturn(<<>>, IF v.ok THEN "vector" ELSE "keyword",
                      OrElse(v.error, k.error), v.gw \o k.gw)

\* src/burns-legal-enhanced-full.ts, tool "search"
BurnsLegalEnhanced_search(query, e, h, net) ==
    IF IsBlank(query) THEN SearchReturn(<<>>, Absent, "query is required", <<>>)
    ELSE
    LET vres == GatewaySearch(e, h, net, "vector")
        vgw == <<Req("rpc/vector_search", {query})>>
        results == IF vres.status = "ok" THEN NormalizeVector(vres.rows) ELSE <<>>
    IN
    IF vres.status = "ok" /\ Len(results) > 0 THEN SearchReturn(results, "vector", Absent, vgw)
    ELSE
    LET kres == GatewaySearch(e, h, net, "keyword")
        g == vgw \o <<Req("exhibits", {ViaSearchParams(encodeURIComponent(query))})>>
    IN
    IF kres.status = "ok" THEN SearchReturn(NormalizeKeyword(kres.rows), "keyword", Absent, g)
    ELSE SearchReturn(<<>>, Absent, "Search failed", g)

\* src/index.ts BurnsLegalMCP.searchLegalDocuments: the keyword request is
\* made in the catch block only, and nothing catches its own failure
searchLegalDocuments(query, e, h, net) ==
    IF ~e.key THEN SearchReturn(<<>>, Absent, "Supabase not configured", <<>>)
    ELSE
    LET vres == GatewaySearch(e, h, net, "vector")
        vgw == <<Req("rpc/semantic_exhibit_search", {query})>>
    IN
    IF vres.status = "ok" THEN SearchReturn(NormalizeVector(vres.rows), Absent, Absent, vgw)
    ELSE IF vres.status = "http" THEN SearchReturn(<<>>, Absent, "Search failed", vgw)
    ELSE
    LET kres == GatewaySearch(e, h, net, "keyword")
        g == vgw \o <<Req("exhibits", {ViaUrl(query)})>>
    IN
    IF kres.status = "net" THEN SearchThrow(g)
    ELSE IF kres.status = "ok" THEN SearchReturn(NormalizeKeyword(kres.rows), Absent, Absent, g)
    ELSE SearchReturn(<<>>, Absent, "Search failed", g)

-----------------------------------------------------------------------------
(* Initial values shared by the specifications *)

Envs == [key : BOOLEAN, url : BOOLEAN]
Stores == {d \in SUBSET RecordUniverse : Cardinality(d) <= MaxRecords}
AllOk == [t \in Tables |-> "ok"]
Nets == {n \in [Tables -> Transport] : Cardinality({t \in Tables : n[t] # "ok"}) <= MaxFaults}

SearchPaths == {"vector", "keyword"}
Hits == [SearchPaths -> 0..MaxRows]
NoHits == [p \in SearchPaths |-> 0]
SearchNets == [SearchPaths -> Transport]

NoCall == [tool |-> "none", impl |-> "none"]
NoRet == [kind |-> "none"]
NoRpc == [worker |-> "none"]

-----------------------------------------------------------------------------
(* SpecFetch: the universal fetch tool of the three workers that have one *)

FetchDone(impl, id, r) ==
    /\ call' = [id |-> id, tool |-> "fetch", impl |-> impl]
    /\ ret' = [id |-> r.id, type |-> r.type, error |-> r.error, kind |-> r.kind,
               metadata |-> r.metadata]
    /\ gw' = r.gw
    /\ lookups' = r.lookups
    /\ UNCHANGED <<env, db, hits, rpcReq, rpcResp, ran, served>>

FetchEnhanced ==
    \E id \in Ids, net \in Nets :
        FetchDone("part_002", id, TOOL_IMPL_fetch(id, env, db, net))

FetchFull ==
    \E id \in Ids, net \in Nets :
        FetchDone("full", id, BurnsLegalEnhanced_fetch(id, env, db, net))

FetchComplete ==
    \E id \in Ids, net \in Nets :
        FetchDone("part_001", id, BurnsLegalEnhancedComplete_fetch(id, env, db, net))

InitFetch ==
    /\ env \in Envs
    /\ db \in Stores
    /\ hits = NoHits
    /\ call = NoCall
    /\ ret = NoRet
    /\ gw = <<>>
    /\ lookups = <<>>
    /\ rpcReq = NoRpc
    /\ rpcResp = NoRpc
    /\ ran = <<>>
    /\ served = <<>>

NextFetch == FetchEnhanced \/ FetchFull \/ FetchComplete

SpecFetch == InitFetch /\ [][NextFetch]_vars

-----------------------------------------------------------------------------
(* Claims about the universal fetch tool *)

IsPrefix(a, b) == Len(a) <= Len(b) /\ SubSeq(b, 1, Len(a)) = a

\* the lookup kinds the claimed order prescribes for an id until one finds a record
ExpectedOrder(id) ==
    (IF IsExhibitId(id) THEN <<"exhibit">> ELSE <<>>)
    \o (IF IsClaimId(id) THEN <<"claim">> ELSE <<>>)
    \o (IF IsFactId(id) THEN <<"fact">> ELSE <<>>)
    \o <<"document">>

FetchReturned == call.tool = "fetch" /\ call.id # <<>> /\ ret.kind = "return"

\* C4: for every non-empty id, fetch tries exhibit, claim, fact, document in
\* that fixed order (each only when the id has its shape, the document lookup
\* whenever every earlier lookup missed); the returned type is that of the
\* first lookup that found a record, and "Resource not found" is returned
\* exactly when every lookup of the order ran and missed.
C4_FetchOrder ==
    FetchReturned =>
        /\ IsPrefix(lookups, ExpectedOrder(call.id))
        /\ (ret.type # "none") =>
                /\ lookups # <<>>
                /\ ret.type = lookups[Len(lookups)]
                /\ ret.metadata \in db
        /\ (ret.type = "none") =>
                /\ lookups = ExpectedOrder(call.id)
                /\ ret.error = "Resource not found"

\* C4 restricted to the two handlers that implement the whole order
C4_FetchOrderFourStage == (call.impl \in {"part_002", "full"}) => C4_FetchOrder

\* C5: an id with an exhibit prefix is never looked up in the claims store,
\* so fetch never returns type "claim" for it.
C5_ExhibitIdNeverClaim ==
    (call.tool = "fetch" /\ IsExhibitId(call.id)) =>
        /\ ret.type # "claim"
        /\ "claim" \notin Range(lookups)
        /\ \A i \in DOMAIN gw : gw[i].table # "claims"

\* C5 witness: Ex042 has no exhibit record but a claim record of that id
\* exists, and part_002 answered the fetch without finding it.
C5_Witness ==
    /\ call.tool = "fetch" /\ call.impl = "part_002" /\ call.id = idEx042
    /\ Configured(env)
    /\ [table |-> "claims", key |-> idEx042] \in db
    /\ [table |-> "exhibits", key |-> idEx042] \notin db
    /\ ret.kind = "return" /\ ret.error = "Resource not found"
    /\ lookups = <<"exhibit", "document">>
    /\ Len(gw) = 2

-----------------------------------------------------------------------------
(* SpecSearch: the search tool of three workers *)

SearchDone(impl, query, net, r) ==
    /\ call' = [net |-> net, tool |-> "search", query |-> query, impl |-> impl]
    /\ ret' = [error |-> r.error, kind |-> r.kind, results |-> r.results,
               resultCount |-> r.resultCount, method |-> r.method]
    /\ gw' = r.gw
    /\ lookups' = <<>>
    /\ UNCHANGED <<env, db, hits, rpcReq, rpcResp, ran, served>>

SearchEnhanced ==
    \E q \in Queries, net \in SearchNets :
        SearchDone("part_002", q, net, TOOL_IMPL_search(q, env, hits, net))

SearchFull ==
    \E q \in Queries, net \in SearchNets :
        SearchDone("full", q, net, BurnsLegalEnhanced_search(q, env, hits, net))

SearchIndex ==
    \E q \in Queries, net \in SearchNets :
        SearchDone("index", q, net, searchLegalDocuments(q, env, hits, net))

InitSearch ==
    /\ env \in Envs
    /\ db = {}
    /\ hits \in Hits
    /\ call = NoCall
    /\ ret = NoRet
    /\ gw = <<>>
    /\ lookups = <<>>
    /\ rpcReq = NoRpc
    /\ rpcResp = NoRpc
    /\ ran = <<>>
    /\ served = <<>>

NextSearch == SearchEnhanced \/ SearchFull \/ SearchIndex

SpecSearch == InitSearch /\ [][NextSearch]_vars

-----------------------------------------------------------------------------
(* Claims about search *)

SearchAnswered(impls) ==
    call.tool = "search" /\ call.impl \in impls /\ ~IsBlank(call.query)

\* what the gateway answered, or would answer, on a path during the last call
PathStatus(p) == GatewaySearch(env, hits, call.net, p).status

VectorIssued ==
    \E i \in DOMAIN gw : gw[i].table \in {"rpc/vector_search", "rpc/semantic_exhibit_search"}
KeywordIssued == \E i \in DOMAIN gw : gw[i].table = "exhibits"

VectorFound == VectorIssued /\ PathStatus("vector") = "ok" /\ hits["vector"] >= 1

\* C1: for a non-blank query, method is "vector" only when the vector attempt
\* succeeded with at least one result, and is "keyword" in every response
\* produced after the keyword path ran, also when that path failed or found
\* nothing (part_002 TOOL_IMPL.search and the McpAgent search handler).
C1_MethodLabel ==
    (SearchAnswered({"part_002", "full"}) /\ ret.kind = "return") =>
        /\ (ret.method = "vector") => (VectorFound /\ ret.resultCount >= 1)
        /\ KeywordIssued => (ret.method = "keyword")

\* C2: with the gateway configured, the keyword query is issued if and only
\* if the vector attempt failed or succeeded with zero results (part_002
\* TOOL_IMPL.search and index.ts searchLegalDocuments).
C2_FallbackTrigger ==
    (SearchAnswered({"part_002", "index"}) /\ Configured(env)) =>
        (KeywordIssued <=> (PathStatus("vector") # "ok" \/ hits["vector"] = 0))

\* C2 for part_002 alone
C2_FallbackTriggerEnhanced == (call.impl = "part_002") => C2_FallbackTrigger

BothFailed ==
    /\ SearchAnswered({"part_002", "full"})
    /\ VectorIssued /\ PathStatus("vector") # "ok"
    /\ KeywordIssued /\ PathStatus("keyword") # "ok"

FailureMessages ==
    {NetworkMessage, "Vector search failed: 500", "Keyword search failed: 500", "Search failed"}

\* C3: when the vector attempt and the keyword attempt of one search call
\* both fail, the call still returns a normal tool result with results = [],
\* resultCount = 0 and an error that is a failure message, never missing or
\* empty.
C3_BothFailSoftError ==
    BothFailed =>
        /\ ret.kind = "return"
        /\ ret.results = <<>>
        /\ ret.resultCount = 0
        /\ ret.error \in FailureMessages

\* C3 witness: part_002 got a non-2xx status from the vector search and a
\* network failure from the keyword query, and reports the vector failure.
C3_Witness ==
    /\ BothFailed /\ call.impl = "part_002"
    /\ call.net["vector"] = "http" /\ call.net["keyword"] = "net"
    /\ Len(gw) = 2
    /\ ret.kind = "return" /\ ret.error = "Vector search failed: 500"

-----------------------------------------------------------------------------
(* JSON-RPC over HTTP POST: requests, responses, handler outcomes *)

PARSE_ERROR == -32700
INVALID_REQUEST == -32600
METHOD_NOT_FOUND == -32601
INVALID_PARAMS == -32602
INTERNAL_ERROR == -32603

\* the id member of a body: not there, JSON null, or a value
RpcIds == {Absent, "null", "1"}
Methods == {"initialize", "initialized", "prompts/list", "resources/list",
            "tools/list", "tools/call", "ping"}
\* params.arguments: not there, {}, or an object with the tool's members
ArgKinds == {"absent", "empty", "given"}

\* part_002 TOOL_IMPL keys
EnhancedTools ==
    {"search", "fetch", "vector_search_embeddings", "keyword_search", "fetch_exhibit",
     "list_exhibits", "fetch_claim", "list_claims", "get_facts_by_claim",
     "get_facts_by_exhibit", "analyze_claim_risk", "get_exhibit_relationships",
     "get_entities", "get_individuals", "get_case_statistics"}
\* src/index.ts: the cases of the tools/call switch
IndexTools ==
    {"search_legal_documents", "vector_search_embeddings", "fetch_exhibit",
     "fetch_claim", "get_facts_by_claim", "analyze_claim_risk"}
\* burns-legal-enhanced-fixed.js: the cases of the tools/call switch
FixedTools ==
    {"search", "fetch", "search_legal_context", "get_claims", "get_claim_details",
     "get_facts_by_claim", "get_exhibits", "analyze_claim_risk"}

\* part_002 TOOLS: the names in declaration order
TOOLS ==
    <<"search", "fetch", "vector_search_embeddings", "keyword_search", "fetch_exhibit",
      "list_exhibits", "fetch_claim", "list_claims", "get_facts_by_claim",
      "get_facts_by_exhibit", "analyze_claim_risk", "get_exhibit_relationships",
      "get_entities", "get_individuals", "get_case_statistics">>
\* src/index.ts: the `tools` literal of tools/list
IndexToolList ==
    <<"search_legal_documents", "vector_search_embeddings", "fetch_exhibit",
      "fetch_claim", "get_facts_by_claim", "analyze_claim_risk">>
\* burns-legal-enhanced-fixed.js: the `tools` literal of tools/list
FixedToolList ==
    <<"search", "fetch", "search_legal_context", "get_claims", "get_claim_details",
      "get_facts_by_claim", "get_exhibits", "analyze_claim_risk">>

\* a list that leaves out the tools run by the request before
ListedToolsWithoutLastRun(w) ==
    LET all == CASE w = "part_002" -> TOOLS
                 [] w = "index" -> IndexToolList
                 [] w = "fixed" -> FixedToolList
    IN SelectSeq(all, LAMBDA n : \A i \in DOMAIN ran : ran[i] # n)

\* result.tools of a tools/list answer
ListedTools(w) ==
    CASE w = "part_002" -> TOOLS
      [] w = "index" -> IndexToolList
      [] w = "fixed" -> FixedToolList

Request(w, b, id, m, hp, n, a, s, u) ==
    [id |-> id, method |-> m, worker |-> w, body |-> b, hasParams |-> hp,
     name |-> n, args |-> a, session |-> s, up |-> u]

\* the POST bodies sent to worker w: text that is not JSON, the JSON literal
\* null, and objects; names are the registered tools and the names in other
RequestsOf(w, tools, other, sessions, ups) ==
    {Request(w, b, Absent, Absent, FALSE, Absent, "absent", s, "ok") :
        b \in {"malformed", "null"}, s \in sessions}
    \cup {Request(w, "object", id, m, hp, Absent, "absent", s, "ok") :
        id \in RpcIds, m \in Methods \ {"tools/call"}, hp \in BOOLEAN, s \in sessions}
    \cup {Request(w, "object", id, "tools/call", FALSE, Absent, "absent", s, "ok") :
        id \in RpcIds, s \in sessions}
    \cup {Request(w, "object", id, "tools/call", TRUE, n, a, s, u) :
        id \in RpcIds, n \in tools, a \in ArgKinds, s \in sessions, u \in ups}
    \cup {Request(w, "object", id, "tools/call", TRUE, n, a, s, "ok") :
        id \in RpcIds, n \in other, a \in ArgKinds, s \in sessions}

EnhancedRequests ==
    RequestsOf("part_002", EnhancedTools, {"nope", "constructor"}, {FALSE}, Transport)
IndexRequests == RequestsOf("index", IndexTools, {"nope"}, {FALSE}, Transport)
FixedRequests == RequestsOf("fixed", FixedTools, {"nope"}, BOOLEAN, {"ok"})

\* new Response(null, { status: 200 })
Ack ==
    [status |-> 200, id |-> Absent, kind |-> "ack", tools |-> <<>>,
     jsonrpc |-> Absent, hasResult |-> FALSE, hasError |-> FALSE, code |-> 0]
\* JSON.stringify({ jsonrpc: "2.0", id, result }): an undefined member is dropped
Envelope(status, id, hasResult, hasError, code) ==
    [status |-> status, id |-> id, kind |-> "envelope", tools |-> <<>>,
     jsonrpc |-> "2.0", hasResult |-> hasResult, hasError |-> hasError, code |-> code]
rpcOk(id) == Envelope(200, id, TRUE, FALSE, 0)
rpcError(id, code) == Envelope(200, id, FALSE, TRUE, code)
\* an exception that leaves the fetch handler: the runtime's own error page
Uncaught ==
    [status |-> 500, id |-> Absent, kind |-> "crash", tools |-> <<>>,
     jsonrpc |-> Absent, hasResult |-> FALSE, hasError |-> FALSE, code |-> 0]

\* what a tool handler did: returned a value (an object or undefined, with
\* the value's error member) or threw (with the exception's message)
Returned(error, g) ==
    [gw |-> g, lookups |-> <<>>, error |-> error, kind |-> "return", value |-> "object"]
ReturnedUndefined(g) ==
    [gw |-> g, lookups |-> <<>>, error |-> Absent, kind |-> "return", value |-> "undefined"]
Threw(message, g) ==
    [gw |-> g, lookups |-> <<>>, error |-> message, kind |-> "throw", value |-> "none"]
NoOut ==
    [gw |-> <<>>, lookups |-> <<>>, error |-> Absent, kind |-> "none", value |-> "none"]

\* one transport outcome for every request of a call
AllUp(u) == [t \in Tables |-> u]
AllPaths(u) == [p \in SearchPaths |-> u]

-----------------------------------------------------------------------------
(* part_002: the tool implementations as tools/call runs them *)

\* the members of `arguments`: {} leaves them undefined
ArgQuery(a) == IF a = "given" THEN qLease ELSE qEmpty
ArgId(a, id) == IF a = "given" THEN id ELSE idUndefined

FromSearch(r) ==
    [gw |-> r.gw, lookups |-> <<>>,
     error |-> r.error, kind |-> r.kind, value |-> IF r.kind = "return" THEN "object" ELSE "none"]
FromFetch(r) ==
    [gw |-> r.gw, lookups |-> r.lookups,
     error |-> IF r.error = "" THEN Absent ELSE r.error, kind |-> r.kind,
     value |-> IF r.kind = "return" THEN "object" ELSE "none"]
\* `if (!r.ok) throw new Error(r.error || ...); return r.data`
FromSafe(r) == IF r.ok THEN Returned(Absent, r.gw) ELSE Threw(r.error, r.gw)
\* `if (!x) throw new Error(... not found)` after a DB helper
FromRowOrThrow(x, message) ==
    IF x.st = "throw" THEN Threw(NetworkMessage, x.gw)
    ELSE IF x.st = "rec" THEN Returned(Absent, x.gw)
    ELSE Threw(message, x.gw)

\* requireDb(env); fetch(...); if (!res.ok) throw ...; return await res.json()
ListTool(e, u, t, message) ==
    IF ~Configured(e) THEN Threw("Database not configured", <<>>)
    ELSE IF u = "net" THEN Threw(NetworkMessage, <<Req(t, {})>>)
    ELSE IF u = "http" THEN Threw(message, <<Req(t, {})>>)
    ELSE Returned(Absent, <<Req(t, {})>>)

TOOL_IMPL_analyze_claim_risk(a, e, d, u) ==
    LET cl == fetchClaim(e, ArgId(a, idClaim7), d, AllUp(u))
    IN IF cl.st = "throw" THEN Threw(NetworkMessage, cl.gw)
       ELSE IF cl.st = "rec" THEN Returned(Absent, cl.gw)
       ELSE Returned("Database not configured or claim not found", cl.gw)

\* the facts of the exhibit, then the claims of those facts when there are any
TOOL_IMPL_get_exhibit_relationships(a, e, d, u) ==
    IF ~Configured(e) THEN Threw("Database not configured", <<>>)
    ELSE IF u = "net" THEN Threw(NetworkMessage, <<Req("facts", {})>>)
    ELSE IF u = "http" THEN Threw("Failed to fetch relationships: 500", <<Req("facts", {})>>)
    ELSE IF a = "given" /\ \E r \in d : r.table = "facts"
         THEN Returned(Absent, <<Req("facts", {}), Req("claims", {})>>)
    ELSE Returned(Absent, <<Req("facts", {})>>)

\* three count requests whose status is never looked at
TOOL_IMPL_get_case_statistics(e, u) ==
    IF ~Configured(e) THEN Threw("Database not configured", <<>>)
    ELSE IF u = "net" THEN Threw(NetworkMessage, <<Req("exhibits", {})>>)
    ELSE Returned(Absent, <<Req("exhibits", {}), Req("claims", {}), Req("facts", {})>>)

\* impl(args, env) for every key of TOOL_IMPL
TOOL_IMPL(name, a, e, d, h, u) ==
    CASE name = "search" -> FromSearch(TOOL_IMPL_search(ArgQuery(a), e, h, AllPaths(u)))
      [] name = "fetch" ->
            FromFetch(TOOL_IMPL_fetch(IF a = "given" THEN idEx042 ELSE idEmpty,
                                      e, d, AllUp(u)))
      [] name = "vector_search_embeddings" ->
            FromSafe(safeVector(e, ArgQuery(a), h, AllPaths(u)))
      [] name = "keyword_search" -> FromSafe(safeKeyword(e, ArgQuery(a), h, AllPaths(u)))
      [] name = "fetch_exhibit" ->
            FromRowOrThrow(fetchExhibit(e, ArgId(a, idEx042), d, AllUp(u)),
                           "Exhibit not found")
      [] name = "fetch_claim" ->
            FromRowOrThrow(fetchClaim(e, ArgId(a, idClaim7), d, AllUp(u)),
                           "Claim not found")
      [] name = "list_exhibits" -> ListTool(e, u, "exhibits", "Failed to list exhibits: 500")
      [] name = "list_claims" -> ListTool(e, u, "claims", "Failed to list claims: 500")
      [] name = "get_facts_by_claim" -> ListTool(e, u, "facts", "Failed to fetch facts: 500")
      [] name = "get_facts_by_exhibit" -> ListTool(e, u, "facts", "Failed to fetch facts: 500")
      [] name = "get_entities" -> ListTool(e, u, "entities", "Failed to fetch entities: 500")
      [] name = "get_individuals" ->
            ListTool(e, u, "individuals", "Failed to fetch individuals: 500")
      [] name = "analyze_claim_risk" -> TOOL_IMPL_analyze_claim_risk(a, e, d, u)
      [] name = "get_exhibit_relationships" -> TOOL_IMPL_get_exhibit_relationships(a, e, d, u)
      [] name = "get_case_statistics" -> TOOL_IMPL_get_case_statistics(e, u)

\* what a worker did with a request
Handled(resp, out, handlers) == [ran |-> handlers, resp |-> resp, out |-> out]

\* part_002 handleRpc
handleRpc(r, e, d, h) ==
    IF r.body = "null" \/ r.id \in {Absent, "null"} THEN Handled(Ack, NoOut, <<>>)
    ELSE IF r.method \in {"initialize", "initialized", "prompts/list", "resources/list"}
         THEN Handled(rpcOk(r.id), NoOut, <<>>)
    ELSE IF r.method = "tools/list"
         THEN Handled([rpcOk(r.id) EXCEPT !.tools = ListedTools("part_002")], NoOut, <<>>)
    ELSE IF r.method = "tools/call"
         THEN IF r.name \in EnhancedTools
              THEN LET out == TOOL_IMPL(r.name, r.args, e, d, h, r.up)
                   IN IF out.kind = "throw"
                      THEN Handled(rpcError(r.id, INTERNAL_ERROR), out, <<r.name>>)
                      ELSE Handled(rpcOk(r.id), out, <<r.name>>)
              \* TOOL_IMPL["constructor"] is Object, inherited from the prototype
              ELSE IF r.name = "constructor"
              THEN Handled(rpcOk(r.id), Returned(Absent, <<>>), <<"Object">>)
              ELSE Handled(rpcError(r.id, INVALID_PARAMS), NoOut, <<>>)
    ELSE Handled(rpcError(r.id, METHOD_NOT_FOUND), NoOut, <<>>)

\* part_002 default.fetch, POST on / or /mcp
EnhancedPost(r, e, d, h) ==
    IF r.body = "malformed" THEN Handled(rpcError("null", PARSE_ERROR), NoOut, <<>>)
    ELSE handleRpc(r, e, d, h)

-----------------------------------------------------------------------------
(* src/index.ts: the direct-invocation methods of BurnsLegalMCP and /mcp *)

\* try { fetch; if (response.ok) { rows; if (rows.length > 0) return {...} } }
\* catch { return {... error ...} }: nothing is returned on the other paths
IndexRow(e, id, d, u, t, message) ==
    LET res == Gateway(e, d, AllUp(u), t, {IdShape[id].raw})
        g == <<Req(t, {IdShape[id].raw})>>
    IN IF res.status = "net" THEN Returned(message, g)
       ELSE IF res.status = "ok" /\ res.rows # {} THEN Returned(Absent, g)
       ELSE ReturnedUndefined(g)

\* try { fetch; if (response.ok) return {...} } catch { return {...} }
IndexRows(e, h, u, t, message, empty) ==
    LET res == GatewaySearch(e, h, AllPaths(u), "vector")
        g == <<Req(t, {})>>
    IN IF res.status = "net" THEN Returned(message, g)
       ELSE IF res.status = "ok"
            THEN Returned(IF Len(res.rows) = 0 THEN empty ELSE Absent, g)
       ELSE ReturnedUndefined(g)

\* agent.<method>(args): the parameter pattern throws when args is undefined
BurnsLegalMCP(name, a, e, d, h, u) ==
    IF a = "absent" THEN Threw("Cannot destructure", <<>>)
    ELSE
    CASE name = "search_legal_documents" ->
            FromSearch(searchLegalDocuments(ArgQuery(a), e, h, AllPaths(u)))
      [] name = "vector_search_embeddings" ->
            IndexRows(e, h, u, "rpc/vector_search", "Vector search failed", Absent)
      [] name = "fetch_exhibit" ->
            IndexRow(e, ArgId(a, idEx042), d, u, "exhibits", "Exhibit not found")
      [] name = "fetch_claim" ->
            IndexRow(e, ArgId(a, idClaim7), d, u, "claims", "Claim not found")
      [] name = "get_facts_by_claim" ->
            IndexRows(e, h, u, "facts", "Failed to fetch facts", Absent)
      [] name = "analyze_claim_risk" ->
            IndexRows(e, h, u, "rpc/calculate_claim_strength", Absent,
                      "No analysis available")

\* src/index.ts default.fetch, POST /mcp
McpEndpoint(r, e, d, h) ==
    LET caught == Envelope(500, Absent, FALSE, TRUE, INTERNAL_ERROR)
    IN
    IF r.body = "malformed"
    THEN Handled(Envelope(400, Absent, FALSE, TRUE, PARSE_ERROR), NoOut, <<>>)
    \* body.method of null
    ELSE IF r.body = "null" THEN Handled(caught, NoOut, <<>>)
    ELSE IF r.method = "initialize"
         THEN Handled(Envelope(200, r.id, TRUE, FALSE, 0), NoOut, <<>>)
    ELSE IF r.method = "tools/call"
         THEN \* const { name, arguments: args } = body.params
              IF ~r.hasParams THEN Handled(caught, NoOut, <<>>)
              ELSE IF r.name \in IndexTools
              THEN LET out == BurnsLegalMCP(r.name, r.args, e, d, h, r.up)
                   IN IF out.kind = "throw" THEN Handled(caught, out, <<r.name>>)
                      ELSE Handled(Envelope(200, r.id, out.value = "object", FALSE, 0),
                                   out, <<r.name>>)
              ELSE Handled(Envelope(200, r.id, FALSE, TRUE, METHOD_NOT_FOUND), NoOut, <<>>)
    ELSE IF r.method = "tools/list"
         THEN Handled([Envelope(200, r.id, TRUE, FALSE, 0)
                          EXCEPT !.tools = ListedTools("index")], NoOut, <<>>)
    ELSE Handled(Envelope(200, r.id, FALSE, TRUE, METHOD_NOT_FOUND), NoOut, <<>>)

-----------------------------------------------------------------------------
(* src/burns-legal-enhanced-fixed.js *)

\* the tools whose case reads a member of args before the handler is called
FixedReadsArgs ==
    {"search", "fetch", "search_legal_context", "get_claim_details",
     "get_facts_by_claim", "analyze_claim_risk"}

\* default.fetch on /mcp or /.  `body` is declared inside the try block, so
\* the catch block's `body?.id` is itself a ReferenceError
FixedFetch(r) ==
    IF r.body \in {"malformed", "null"} THEN Handled(Uncaught, NoOut, <<>>)
    ELSE IF r.method = "initialize"
         THEN \* params.protocolVersion
              IF r.hasParams THEN Handled(Envelope(200, r.id, TRUE, FALSE, 0), NoOut, <<>>)
              ELSE Handled(Uncaught, NoOut, <<>>)
    ELSE IF ~r.session
         THEN Handled(Envelope(400, r.id, FALSE, TRUE, INVALID_REQUEST), NoOut, <<>>)
    ELSE IF r.method = "tools/list"
         THEN Handled([Envelope(200, r.id, TRUE, FALSE, 0)
                          EXCEPT !.tools = ListedTools("fixed")], NoOut, <<>>)
    ELSE IF r.method = "tools/call"
         THEN IF ~r.hasParams THEN Handled(Uncaught, NoOut, <<>>)
              ELSE IF r.name \in FixedTools
              THEN IF r.args = "absent"
                   THEN Handled(Uncaught, Threw("Cannot read properties of undefined", <<>>),
                                IF r.name \in FixedReadsArgs THEN <<>> ELSE <<r.name>>)
                   ELSE Handled(Envelope(200, r.id, TRUE, FALSE, 0),
                                Returned(Absent, <<>>), <<r.name>>)
              ELSE Handled(Envelope(404, r.id, FALSE, TRUE, METHOD_NOT_FOUND), NoOut, <<>>)
    ELSE Handled(Envelope(404, r.id, FALSE, TRUE, METHOD_NOT_FOUND), NoOut, <<>>)

-----------------------------------------------------------------------------
(* SpecRpc: the three workers that parse JSON-RPC bodies themselves *)

RpcDone(r, x) ==
    /\ rpcReq' = r
    /\ rpcResp' = x.resp
    /\ ran' = x.ran
    /\ ret' = x.out
    /\ call' = [tool |-> r.name, impl |-> r.worker]
    /\ gw' = x.out.gw
    /\ lookups' = x.out.lookups
    /\ db' = IF r.up = "ok" /\ env.key THEN Upstream(db, x.out.gw) ELSE db
    /\ UNCHANGED <<env, hits, served>>

PostEnhanced == \E r \in EnhancedRequests : RpcDone(r, EnhancedPost(r, env, db, hits))

PostIndex == \E r \in IndexRequests : RpcDone(r, McpEndpoint(r, env, db, hits))

PostFixed == \E r \in FixedRequests : RpcDone(r, FixedFetch(r))

\* an upstream with nothing in it, or with one exhibit, one claim and a row
\* for every search
RpcRecords == {[table |-> "exhibits", key |-> idEx042], [table |-> "claims", key |-> idClaim7]}
RpcStores == {d \in Stores : d = {} \/ d = RpcRecords}

InitRpc ==
    /\ env \in Envs
    /\ db \in RpcStores
    /\ hits = IF db = {} THEN NoHits ELSE [p \in SearchPaths |-> 1]
    /\ call = NoCall
    /\ ret = NoOut
    /\ gw = <<>>
    /\ lookups = <<>>
    /\ rpcReq = NoRpc
    /\ rpcResp = NoRpc
    /\ ran = <<>>
    /\ served = <<>>

NextRpc == PostEnhanced \/ PostIndex \/ PostFixed

SpecRpc == InitRpc /\ [][NextRpc]_vars

-----------------------------------------------------------------------------
(* Claims about the JSON-RPC dispatchers *)

Answered == rpcReq.worker # "none"
CarriesId == rpcReq.body = "object" /\ rpcReq.id \notin {Absent, "null"}
RegisteredTools(w) ==
    CASE w = "part_002" -> EnhancedTools
      [] w = "index" -> IndexTools
      [] w = "fixed" -> FixedTools
ErrorEnvelope(code) ==
    rpcResp.kind = "envelope" /\ rpcResp.hasError /\ rpcResp.code = code

\* C6: every POST whose body is not valid JSON is answered with a JSON-RPC
\* error envelope whose error.code is -32700, in each of the three workers
\* that parse the body themselves
C6_MalformedJsonParseError ==
    (Answered /\ rpcReq.body = "malformed") => ErrorEnvelope(PARSE_ERROR)

\* C6 for the two workers whose parse failure has a handler of its own
C6_MalformedJsonEnhancedIndex ==
    (Answered /\ rpcReq.worker \in {"part_002", "index"} /\ rpcReq.body = "malformed")
        => ErrorEnvelope(PARSE_ERROR)

\* C7: every tools/call whose name is not a registered tool name is answered
\* with a JSON-RPC error of code -32601, and no tool handler is executed
C7_UnknownToolMethodNotFound ==
    (Answered /\ CarriesId /\ rpcReq.method = "tools/call" /\ rpcReq.hasParams
        /\ rpcReq.name \notin RegisteredTools(rpcReq.worker))
        => (ErrorEnvelope(METHOD_NOT_FOUND) /\ ran = <<>>)

\* C8: when a registered tool's handler raises during tools/call, the answer
\* is a JSON-RPC error envelope of code -32603 that carries the request's id
C8_HandlerExceptionInternalError ==
    (Answered /\ CarriesId /\ ran # <<>> /\ ret.kind = "throw")
        => (ErrorEnvelope(INTERNAL_ERROR) /\ rpcResp.id = rpcReq.id)

\* C8 in part_002, whose tools/call has a try/catch of its own
C8_HandlerExceptionEnhanced ==
    (rpcReq.worker = "part_002") => C8_HandlerExceptionInternalError

\* C9: a request without an id (absent or null) is a notification: whatever
\* its method, it gets an empty acknowledgement, no result and no error
C9_NotificationAckOnly ==
    (Answered /\ rpcReq.body = "object" /\ rpcReq.id \in {Absent, "null"})
        => (rpcResp.kind = "ack" /\ ~rpcResp.hasResult /\ ~rpcResp.hasError)

\* C9 in part_002, the worker that tests the id before the method
C9_NotificationAckEnhanced ==
    (rpcReq.worker = "part_002") => C9_NotificationAckOnly

\* C10: every answer to a request that carries an id is a well-formed
\* envelope: jsonrpc "2.0", the same id, and exactly one of result and error,
\* for every tool and every upstream outcome
C10_WellFormedEnvelope ==
    (Answered /\ CarriesId)
        => /\ rpcResp.kind = "envelope"
           /\ rpcResp.jsonrpc = "2.0"
           /\ rpcResp.id = rpcReq.id
           /\ rpcResp.hasResult # rpcResp.hasError

\* C10 in part_002, where every path ends in rpcOk or rpcError
C10_WellFormedEnvelopeEnhanced ==
    (rpcReq.worker = "part_002") => C10_WellFormedEnvelope

-----------------------------------------------------------------------------
(* Claims about argument validation and error reporting *)

\* part_002 TOOLS: the tools whose inputSchema has a `required` list
EnhancedRequired ==
    {"search", "fetch", "vector_search_embeddings", "keyword_search", "fetch_exhibit",
     "fetch_claim", "get_facts_by_claim", "get_facts_by_exhibit", "analyze_claim_risk",
     "get_exhibit_relationships"}

EnhancedCall ==
    Answered /\ CarriesId /\ rpcReq.worker = "part_002" /\ rpcReq.method = "tools/call"
        /\ rpcReq.hasParams /\ rpcReq.name \in EnhancedTools

\* the answer is an error of either kind: a JSON-RPC error object, or a
\* result whose payload has an error member
ReportsError == rpcResp.hasError \/ (rpcResp.hasResult /\ ret.error # Absent)

\* C11: a tools/call whose arguments lack a required member fails with an
\* error and sends no request to the gateway
C11_InvalidArgumentsNoUpstream ==
    (EnhancedCall /\ rpcReq.name \in EnhancedRequired /\ rpcReq.args \in {"absent", "empty"})
        => (ReportsError /\ gw = <<>>)

\* C11 for the two tools that test their argument before anything else
C11_BlankQueryOrIdNoUpstream ==
    (EnhancedCall /\ rpcReq.name \in {"search", "fetch", "vector_search_embeddings",
                                      "keyword_search"}
        /\ rpcReq.args \in {"absent", "empty"})
        => (ReportsError /\ gw = <<>>)

\* the tools that look one record up by the id they are given
EnhancedLookupTools == {"fetch", "fetch_exhibit", "fetch_claim", "analyze_claim_risk"}

\* a configured part_002 ran a tool on well-formed arguments and the lookup
\* found no record
LookupMissed ==
    EnhancedCall /\ Configured(env) /\ rpcReq.args = "given" /\ rpcReq.up = "ok"
        /\ rpcReq.name \in EnhancedLookupTools /\ db = {}

\* a configured part_002 ran a tool on well-formed arguments and the gateway
\* was unreachable or answered a non-2xx status
UpstreamFailed ==
    EnhancedCall /\ Configured(env) /\ rpcReq.args = "given" /\ rpcReq.up # "ok"
        /\ gw # <<>>

SoftError == rpcResp.hasResult /\ ~rpcResp.hasError /\ ret.error # Absent

\* C12: a lookup that finds no record, and an upstream network failure or
\* non-2xx status, are answered with a successful JSON-RPC result whose
\* payload has an error member, never with a JSON-RPC error object
C12_ToolFailuresAreSoft == (LookupMissed \/ UpstreamFailed) => SoftError

\* C12 for the tools that do report their failures inside the result: a
\* record not found by fetch or analyze_claim_risk, and a failed search
C12_SoftWhereHandled ==
    (\/ (LookupMissed /\ rpcReq.name \in {"fetch", "analyze_claim_risk"})
     \/ (UpstreamFailed /\ rpcReq.name = "search"))
        => SoftError

\* the worker of the last request has no gateway credential (part_002 also
\* needs the base URL, src/index.ts has a built-in one)
Unconfigured ==
    \/ (rpcReq.worker = "part_002" /\ ~Configured(env))
    \/ (rpcReq.worker = "index" /\ ~env.key)

NotConfiguredMessages ==
    {"Database not configured", "Supabase not configured",
     "Database not configured or claim not found"}

RegisteredCall ==
    Answered /\ CarriesId /\ rpcReq.method = "tools/call" /\ rpcReq.hasParams
        /\ rpcReq.name \in RegisteredTools(rpcReq.worker)

\* C13: without the gateway credential (or base URL) every tools/call gets a
\* successful result whose payload says that the database is not configured:
\* no JSON-RPC error, no uncaught exception, no plain empty result
C13_NotConfiguredIsReported ==
    (RegisteredCall /\ rpcReq.args = "given" /\ Unconfigured)
        => (rpcResp.kind = "envelope" /\ rpcResp.hasResult /\ ~rpcResp.hasError
            /\ ret.error \in NotConfiguredMessages)

\* C13 for the two handlers that answer so
C13_NotConfiguredWhereHandled ==
    (\/ (rpcReq.worker = "index" /\ rpcReq.name = "search_legal_documents")
     \/ (rpcReq.worker = "part_002" /\ rpcReq.name = "analyze_claim_risk"))
        => C13_NotConfiguredIsReported

-----------------------------------------------------------------------------
(* SpecRisk: part_002 analyze_claim_risk on the claim row the gateway returns.
   Scores are carried in millionths, so that damages_estimate / 1_000_000 of a
   whole number of dollars is the number itself. *)

Million == 1000000
MaxDamagesSteps == 21
MaxExhibitIds == 2

Tenth == Million \div 10

\* damages_estimate of a row: missing, a string, or a number around every
\* multiple of 100,000
DamagesValues ==
    {[kind |-> "absent", n |-> 0], [kind |-> "string", n |-> 2 * Million]}
    \cup {[kind |-> "number", n |-> k * Tenth + o] : k \in 0..MaxDamagesSteps, o \in {-1, 0, 1}}

\* exhibit_ids of a row: missing, a string, or a list of so many ids
ExhibitIdsValues ==
    {[kind |-> "absent", len |-> 0], [kind |-> "string", len |-> 3]}
    \cup {[kind |-> "list", len |-> n] : n \in 0..MaxExhibitIds}

ClaimRows == [damages_estimate : DamagesValues, exhibit_ids : ExhibitIdsValues]
NoClaimRow ==
    [damages_estimate |-> [kind |-> "none", n |-> 0], exhibit_ids |-> [kind |-> "none", len |-> 0]]

Min(a, b) == IF a <= b THEN a ELSE b

\* the scoring with the evidence test inverted
RiskScoresEvidenceInverted(cl) ==
    LET hasEvidence == cl.exhibit_ids.kind = "list" /\ cl.exhibit_ids.len > 0
        hasDamages == cl.damages_estimate.kind = "number" /\ cl.damages_estimate.n > 0
        financial == IF hasDamages THEN Min(cl.damages_estimate.n, Million) ELSE 5 * Tenth
        legal == IF hasEvidence THEN 8 * Tenth ELSE 4 * Tenth
        twice == financial + legal
    IN [error |-> Absent, kind |-> "return", financial |-> financial, legal |-> legal,
        overall_risk |-> IF twice < 2 * 3 * Tenth THEN "low"
                         ELSE IF twice < 2 * 6 * Tenth THEN "moderate" ELSE "high"]

\* part_002 TOOL_IMPL.analyze_claim_risk, lines 504-520: overall < 0.3 is
\* financial + legal < 0.6
RiskScores(cl) ==
    LET hasEvidence == cl.exhibit_ids.kind = "list" /\ cl.exhibit_ids.len > 0
        hasDamages == cl.damages_estimate.kind = "number" /\ cl.damages_estimate.n > 0
        financial == IF hasDamages THEN Min(cl.damages_estimate.n, Million) ELSE 5 * Tenth
        legal == IF hasEvidence THEN 4 * Tenth ELSE 8 * Tenth
        twice == financial + legal
    IN [error |-> Absent, kind |-> "return", financial |-> financial, legal |-> legal,
        overall_risk |-> IF twice < 2 * 3 * Tenth THEN "low"
                         ELSE IF twice < 2 * 6 * Tenth THEN "moderate" ELSE "high"]

\* line 502: no claim row
RiskUnknown ==
    [error |-> "Database not configured or claim not found", kind |-> "return",
     financial |-> 5 * Tenth, legal |-> 5 * Tenth, overall_risk |-> "unknown"]

\* the handler, given what fetchClaim returned
AnalyzeClaimRisk ==
    \E cl \in ClaimRows \cup {NoClaimRow} :
        /\ call' = [claim |-> cl, tool |-> "analyze_claim_risk", impl |-> "part_002"]
        /\ ret' = IF cl = NoClaimRow THEN RiskUnknown ELSE RiskScores(cl)
        /\ UNCHANGED <<env, db, hits, gw, lookups, rpcReq, rpcResp, ran, served>>

InitRisk ==
    /\ env \in {e \in Envs : Configured(e)}
    /\ db = {}
    /\ hits = NoHits
    /\ call = NoCall
    /\ ret = NoRet
    /\ gw = <<>>
    /\ lookups = <<>>
    /\ rpcReq = NoRpc
    /\ rpcResp = NoRpc
    /\ ran = <<>>
    /\ served = <<>>

NextRisk == AnalyzeClaimRisk

SpecRisk == InitRisk /\ [][NextRisk]_vars

RiskAnswered == call.tool = "analyze_claim_risk" /\ call.claim # NoClaimRow

PositiveDamages ==
    call.claim.damages_estimate.kind = "number" /\ call.claim.damages_estimate.n > 0
NonEmptyExhibitList ==
    call.claim.exhibit_ids.kind = "list" /\ call.claim.exhibit_ids.len >= 1

\* C14: for every found claim row, financial is min(damages_estimate /
\* 1,000,000, 1) for a positive numeric damages_estimate and 0.5 otherwise,
\* legal is 0.4 for a non-empty exhibit_ids list and 0.8 otherwise, and
\* overall_risk is low when (financial + legal) / 2 < 0.3, moderate when it
\* is < 0.6 and high otherwise; damages 2,000,000 with one exhibit gives
\* 1.0 / 0.4 / high and damages 0 with no exhibits gives 0.5 / 0.8 / high
C14_RiskArithmetic ==
    RiskAnswered =>
        /\ PositiveDamages =>
              /\ ret.financial <= Million
              /\ ret.financial <= call.claim.damages_estimate.n
              /\ ret.financial \in {Million, call.claim.damages_estimate.n}
        /\ ~PositiveDamages => ret.financial = Million \div 2
        /\ ret.legal = IF NonEmptyExhibitList THEN 400000 ELSE 800000
        /\ (ret.overall_risk = "low") <=> (10 * (ret.financial + ret.legal) < 2 * 3 * Million)
        /\ (ret.overall_risk = "moderate") <=>
              /\ 10 * (ret.financial + ret.legal) >= 2 * 3 * Million
              /\ 10 * (ret.financial + ret.legal) < 2 * 6 * Million
        /\ ret.overall_risk \in {"low", "moderate", "high"}
        /\ (call.claim.damages_estimate = [kind |-> "number", n |-> 2 * Million]
                /\ call.claim.exhibit_ids = [kind |-> "list", len |-> 1])
              => (ret.financial = Million /\ ret.legal = 400000 /\ ret.overall_risk = "high")
        /\ (call.claim.damages_estimate = [kind |-> "number", n |-> 0]
                /\ call.claim.exhibit_ids = [kind |-> "list", len |-> 0])
              => (ret.financial = 500000 /\ ret.legal = 800000 /\ ret.overall_risk = "high")

\* C14 witness: damages 2,000,000 with one exhibit was scored 1.0 / 0.4 / high
C14_Witness ==
    /\ RiskAnswered
    /\ call.claim.damages_estimate = [kind |-> "number", n |-> 2 * Million]
    /\ call.claim.exhibit_ids = [kind |-> "list", len |-> 1]
    /\ ret.financial = Million /\ ret.legal = 400000 /\ ret.overall_risk = "high"

-----------------------------------------------------------------------------
(* SpecSnippet: the snippet of a search result, part_002 safeVector and
   safeKeyword *)

SnippetLimit == 200
MaxFieldLen == 202

\* a text of n characters that begins and ends with a blank
Text(n, ch) == [i \in 1..n |-> IF i = 1 \/ i = n THEN " " ELSE ch]

FieldLens == {0, 1, 2, 3} \cup ((SnippetLimit - 1)..MaxFieldLen)

\* a text member of a row: missing, or a string
FieldValues(ch) ==
    {[present |-> FALSE, text |-> <<>>]}
    \cup {[present |-> TRUE, text |-> Text(n, ch)] : n \in FieldLens}

SnippetRows == [content : FieldValues("c"), description : FieldValues("d")]

\* a || b for two text members: the first that is present and not ""
Either(a, b) == IF a.present /\ a.text # <<>> THEN a ELSE b
\* (x || "")
OrEmpty(a) == IF a.present THEN a.text ELSE <<>>

\* s.slice(0, n) after s.trim()
SliceTrimmed(s, n) == SubSeq(Trim(s), 1, Min(Len(Trim(s)), n))

\* s.slice(0, n)
Slice(s, n) == SubSeq(s, 1, Min(Len(s), n))

\* safeVector: (r.content || r.description || "").slice(0, 200)
VectorSnippet(r) == Slice(OrEmpty(Either(r.content, r.description)), SnippetLimit)
\* safeKeyword: (d.description || d.content || "").slice(0, 200)
KeywordSnippet(r) == Slice(OrEmpty(Either(r.description, r.content)), SnippetLimit)

SnippetDone(path, row, snippet) ==
    /\ call' = [tool |-> "search", row |-> row, impl |-> "part_002", path |-> path]
    /\ ret' = [kind |-> "return", snippet |-> snippet]
    /\ UNCHANGED <<env, db, hits, gw, lookups, rpcReq, rpcResp, ran, served>>

MapVectorRow == \E r \in SnippetRows : SnippetDone("vector", r, VectorSnippet(r))

MapKeywordRow == \E r \in SnippetRows : SnippetDone("keyword", r, KeywordSnippet(r))

InitSnippet ==
    /\ env \in {e \in Envs : Configured(e)}
    /\ db = {}
    /\ hits = NoHits
    /\ call = NoCall
    /\ ret = NoRet
    /\ gw = <<>>
    /\ lookups = <<>>
    /\ rpcReq = NoRpc
    /\ rpcResp = NoRpc
    /\ ran = <<>>
    /\ served = <<>>

NextSnippet == MapVectorRow \/ MapKeywordRow

SpecSnippet == InitSnippet /\ [][NextSnippet]_vars

SnippetMade == call.tool = "search" /\ call.impl = "part_002" /\ ret.kind = "return"

\* the upstream text a path takes its snippet from
SnippetSource ==
    LET first == IF call.path = "vector" THEN call.row.content ELSE call.row.description
        second == IF call.path = "vector" THEN call.row.description ELSE call.row.content
    IN IF first.present /\ Len(first.text) > 0 THEN first.text
       ELSE IF second.present THEN second.text
       ELSE <<>>

\* C15: every snippet of the vector path and of the keyword path has at most
\* 200 characters and is exactly the first min(200, length) characters of
\* the upstream field it was taken from
C15_SnippetTruncation ==
    SnippetMade =>
        /\ Len(ret.snippet) <= 200
        /\ Len(ret.snippet) = IF Len(SnippetSource) < 200 THEN Len(SnippetSource) ELSE 200
        /\ \A i \in 1..Len(ret.snippet) : ret.snippet[i] = SnippetSource[i]

\* C15 witness: a content of 201 characters was cut to its first 200
C15_Witness ==
    /\ SnippetMade /\ call.path = "vector"
    /\ call.row.content.present /\ Len(call.row.content.text) = 201
    /\ Len(ret.snippet) = 200
    /\ ret.snippet[1] = " " /\ ret.snippet[200] = "c"

-----------------------------------------------------------------------------
(* SpecStateless: one part_002 instance answering several calls in a row *)

MaxCalls == 3

\* the fetch calls and the other requests that are repeated and interleaved
RepeatedIds == {idEx042, idDoc1}
RepeatedNets == {AllUp("ok"), AllUp("net")}
OtherRequests ==
    {r \in EnhancedRequests :
        /\ r.up = "ok"
        /\ \/ r.body = "malformed"
           \/ (r.id = "1" /\ r.method \in {"initialize", "tools/list"} /\ ~r.hasParams)
           \/ (r.id = "1" /\ r.method = "tools/call" /\ r.name = "search"
                  /\ r.args = "given")}

\* the answer of a fetch call, as the client sees it and as the history keeps it
FetchServed(id, net, r) ==
    /\ call' = [id |-> id, tool |-> "fetch", impl |-> "part_002"]
    /\ ret' = [id |-> r.id, type |-> r.type, error |-> r.error, kind |-> r.kind,
               metadata |-> r.metadata]
    /\ gw' = r.gw
    /\ lookups' = r.lookups
    /\ served' = Append(served,
                        [net |-> net, id |-> id, type |-> r.type, error |-> r.error,
                         kind |-> r.kind, metadata |-> r.metadata, tool |-> "fetch"])
    /\ UNCHANGED <<env, db, hits, rpcReq, rpcResp, ran>>

\* handleRpc tools/call -> TOOL_IMPL.fetch
ServeFetch ==
    /\ Len(served) < MaxCalls
    /\ \E id \in RepeatedIds, net \in RepeatedNets :
         FetchServed(id, net, TOOL_IMPL_fetch(id, env, db, net))

\* the answer of another request
OtherServed(r, x) ==
    /\ rpcReq' = r
    /\ rpcResp' = x.resp
    /\ ran' = x.ran
    /\ served' = Append(served,
                        [net |-> AllUp(r.up),
                         id |-> <<>>, type |-> "none", error |-> x.out.error,
                         kind |-> x.resp.kind, metadata |-> NoRec,
                         tool |-> IF r.body = "malformed" THEN "malformed"
                                  ELSE IF r.method = "tools/call" THEN r.name
                                  ELSE r.method])
    /\ UNCHANGED <<env, db, hits, call, ret, gw, lookups>>

\* any other POST to the same instance
ServeOther ==
    /\ Len(served) < MaxCalls
    /\ \E r \in OtherRequests : OtherServed(r, EnhancedPost(r, env, db, hits))

InitStateless ==
    /\ env \in Envs
    /\ db \in RpcStores
    /\ hits = IF db = {} THEN NoHits ELSE [p \in SearchPaths |-> 1]
    /\ call = NoCall
    /\ ret = NoRet
    /\ gw = <<>>
    /\ lookups = <<>>
    /\ rpcReq = NoRpc
    /\ rpcResp = NoRpc
    /\ ran = <<>>
    /\ served = <<>>

NextStateless == ServeFetch \/ ServeOther

SpecStateless == InitStateless /\ [][NextStateless]_vars

-----------------------------------------------------------------------------
(* Claims about the fixed answers: tools/list and initialize *)

\* a tools/list request with an id, answered by part_002 or src/index.ts
ToolsListAnswered ==
    Answered /\ CarriesId /\ rpcReq.method = "tools/list"
        /\ rpcReq.worker \in {"part_002", "index"}

\* C17: tools/list returns the whole static registry in declaration order:
\* the same names, count and order on every call, whatever request (an
\* initialize, a tools/call, a failed request) was answered before it
C17_ToolsListIsStatic ==
    ToolsListAnswered =>
        /\ rpcResp.hasResult /\ ~rpcResp.hasError
        /\ rpcReq.worker = "part_002" =>
              /\ Len(rpcResp.tools) = 15
              /\ rpcResp.tools = TOOLS
              /\ Range(rpcResp.tools) = EnhancedTools
        /\ rpcReq.worker = "index" =>
              /\ Len(rpcResp.tools) = 6
              /\ rpcResp.tools = IndexToolList
              /\ Range(rpcResp.tools) = IndexTools

\* C17 for the step that follows a tool call: the list is the registry again
C17_ToolsListAfterAnyRequest ==
    [][(ToolsListAnswered' /\ Answered) =>
          (rpcResp'.tools = IF rpcReq'.worker = "part_002" THEN TOOLS ELSE IndexToolList)]_vars

\* C17 witness: part_002 answered a tools/list that carried no params with
\* its 15 tools, "search" first and "get_case_statistics" last
C17_Witness ==
    /\ ToolsListAnswered /\ rpcReq.worker = "part_002" /\ ~rpcReq.hasParams
    /\ Len(rpcResp.tools) = 15 /\ rpcResp.tools[1] = "search"
    /\ rpcResp.tools[15] = "get_case_statistics"

-----------------------------------------------------------------------------
(* SpecRel: get_exhibit_relationships as a function of the two gateway answers *)

\* rows of the facts answer
MaxFacts == 2
\* entries of one claim's exhibit_ids
MaxListed == 2

RelOrigin == "Ex001"
RelExhibits == {RelOrigin, "Ex002", "Ex003"}
RelClaimIds == {"c1", "c2"}
\* the claims table in gateway order
RelClaimOrder == <<"c1", "c2">>

SeqsUpTo(S, n) == UNION {[1..k -> S] : k \in 0..n}

\* the claim_id column of the rows of facts?source_exhibit_id=eq.<exhibit_id>
FactAnswers == SeqsUpTo(RelClaimIds, MaxFacts)
\* the exhibit_ids column of a claims row: null or a list
ExhibitIdsColumn ==
    {[kind |-> "null", ids |-> <<>>]}
        \cup {[kind |-> "list", ids |-> s] : s \in SeqsUpTo(RelExhibits, MaxListed)}
RelClaimTables == [RelClaimIds -> ExhibitIdsColumn]
\* depth as sent: left out, or a number of the schema's range
DepthArgs == {[n |-> 1, given |-> FALSE]} \cup {[n |-> k, given |-> TRUE] : k \in 1..3}
\* outcome of the facts request and of the claims request
RelNets == [facts : {"ok", "http"}, claims : {"ok", "http"}]

\* [...new Set(s)]: first occurrences, in order
RECURSIVE Distinct(_)
Distinct(s) ==
    IF s = <<>> THEN <<>>
    ELSE LET rest == Distinct(SubSeq(s, 1, Len(s) - 1))
             last == s[Len(s)]
         IN IF last \in Range(rest) THEN rest ELSE Append(rest, last)

\* claims?id=in.(<claimIds>): the rows whose id is listed
ClaimsIn(claimIds, table) ==
    LET ids == SelectSeq(RelClaimOrder, LAMBDA c : c \in Range(claimIds))
    IN [i \in DOMAIN ids |-> table[ids[i]]]

\* claims.flatMap(c => c.exhibit_ids || [])
FlatExhibitIds(rows) == Flatten([i \in DOMAIN rows |-> rows[i].ids])

Related(exhibit_id, claimIds, exhibits, depth, n) ==
    [error |-> Absent, kind |-> "return", exhibit_id |-> exhibit_id,
     depth |-> depth, related_claims |-> claimIds,
     related_exhibits |-> exhibits, requests |-> n]
RelSoftError(message, n) ==
    [error |-> message, kind |-> "return", exhibit_id |-> Absent,
     depth |-> 0, related_claims |-> <<>>, related_exhibits |-> <<>>, requests |-> n]
RelThrow(message, n) ==
    [error |-> message, kind |-> "throw", exhibit_id |-> Absent,
     depth |-> 0, related_claims |-> <<>>, related_exhibits |-> <<>>, requests |-> n]

\* part_002 TOOL_IMPL.get_exhibit_relationships({ exhibit_id, depth = 1 })
get_exhibit_relationships(exhibit_id, depthArg, facts, table, net) ==
    LET depth == IF depthArg.given THEN depthArg.n ELSE 1
        claimIds == Distinct(facts)
        relatedExhibits == Distinct(FlatExhibitIds(ClaimsIn(claimIds, table)))
    IN IF net.facts # "ok" THEN RelThrow("Failed to fetch relationships", 1)
       ELSE IF Len(claimIds) > 0
            THEN IF net.claims # "ok" THEN RelThrow("Failed to fetch claims", 2)
                 ELSE Related(exhibit_id, claimIds,
                              SelectSeq(relatedExhibits, LAMBDA id : id # exhibit_id),
                              depth, 2)
       ELSE Related(exhibit_id, <<>>, <<>>, depth, 1)

\* part_001 "get_exhibit_relationships": a facts failure is a soft error, a
\* claims failure falls through to the empty answer
BurnsLegalEnhancedComplete_get_exhibit_relationships(exhibit_id, depthArg, facts, table, net) ==
    LET depth == IF depthArg.given THEN depthArg.n ELSE 1
        claimIds == Distinct(facts)
        relatedExhibits == Distinct(FlatExhibitIds(ClaimsIn(claimIds, table)))
    IN IF net.facts # "ok" THEN RelSoftError("Failed to fetch relationships", 1)
       ELSE IF Len(claimIds) > 0 /\ net.claims = "ok"
            THEN Related(exhibit_id, claimIds,
                         SelectSeq(relatedExhibits, LAMBDA id : id # exhibit_id),
                         depth, 2)
       ELSE Related(exhibit_id, <<>>, <<>>, depth, IF Len(claimIds) > 0 THEN 2 ELSE 1)

RelDone(impl, out) ==
    /\ call.tool = "get_exhibit_relationships" /\ call.impl = "none"
    /\ call' = [call EXCEPT !.impl = impl]
    /\ ret' = out
    /\ UNCHANGED <<env, db, hits, gw, lookups, rpcReq, rpcResp, ran, served>>

RelEnhanced ==
    RelDone("part_002",
            get_exhibit_relationships(call.exhibit_id, call.depth, call.facts,
                                      call.table, call.net))

RelComplete ==
    RelDone("part_001",
            BurnsLegalEnhancedComplete_get_exhibit_relationships(
                call.exhibit_id, call.depth, call.facts, call.table, call.net))

InitRel ==
    /\ env \in {e \in Envs : Configured(e)}
    /\ db = {}
    /\ hits = NoHits
    /\ call \in [table : RelClaimTables, net : RelNets,
                 tool : {"get_exhibit_relationships"}, impl : {"none"}, facts : FactAnswers,
                 exhibit_id : {RelOrigin}, depth : DepthArgs]
    /\ ret = NoRet
    /\ gw = <<>>
    /\ lookups = <<>>
    /\ rpcReq = NoRpc
    /\ rpcResp = NoRpc
    /\ ran = <<>>
    /\ served = <<>>

NextRel == RelEnhanced \/ RelComplete

SpecRel == InitRel /\ [][NextRel]_vars

\* the tool returned its four-field answer
RelAnswered ==
    /\ call.tool = "get_exhibit_relationships" /\ call.impl # "none"
    /\ ret.kind = "return" /\ ret.error = Absent

NoRepeats(s) == \A i, j \in DOMAIN s : s[i] = s[j] => i = j

\* the exhibit ids listed by the claims the facts name
ExhibitsOfClaims(claimIds, table) == UNION {Range(table[c].ids) : c \in claimIds}

OneHop ==
    /\ NoRepeats(ret.related_claims)
    /\ Range(ret.related_claims) = Range(call.facts)
    /\ NoRepeats(ret.related_exhibits)
    /\ Range(ret.related_exhibits)
           = ExhibitsOfClaims(Range(call.facts), call.table) \ {call.exhibit_id}
    /\ ret.depth = IF call.depth.given THEN call.depth.n ELSE 1

\* C18: related_claims is the distinct claim ids of the facts that reference
\* the exhibit, related_exhibits the de-duplicated union of those claims'
\* exhibit_ids without the origin exhibit, for every depth in 1..3, and depth
\* is only echoed
C18_OneHopRelationships == RelAnswered => OneHop

\* C18 where the claims request was answered: the one-hop sets, whatever depth
C18_OneHopWhenClaimsAnswered ==
    (RelAnswered /\ call.net.claims = "ok") =>
        /\ OneHop
        /\ \A d \in DepthArgs :
              LET other == get_exhibit_relationships(call.exhibit_id, d, call.facts,
                                                     call.table, call.net)
              IN /\ other.related_claims = ret.related_claims
                 /\ other.related_exhibits = ret.related_exhibits

\* C18 for part_002 alone
C18_OneHopEnhanced == (RelAnswered /\ call.impl = "part_002") => OneHop


\* an initialize request that carries an id
InitializeAnswered == Answered /\ CarriesId /\ rpcReq.method = "initialize"

SuccessResult ==
    /\ rpcResp.kind = "envelope" /\ rpcResp.status = 200
    /\ rpcResp.hasResult /\ ~rpcResp.hasError /\ rpcResp.id = rpcReq.id

\* C19: initialize never fails: every request with method initialize and an
\* id, with or without params, is answered with a success result
C19_InitializeNeverFails == InitializeAnswered => SuccessResult

\* C19 for part_002 and src/index.ts, and for the fixed worker when the
\* request has params
C19_InitializeWhereParamsUnread ==
    (InitializeAnswered /\ (rpcReq.worker \in {"part_002", "index"} \/ rpcReq.hasParams))
        => SuccessResult


-----------------------------------------------------------------------------
(* Claims about retries *)

VectorTables == {"rpc/vector_search", "rpc/semantic_exhibit_search"}
VectorRequests == {i \in DOMAIN gw : gw[i].table \in VectorTables}
KeywordRequests == {i \in DOMAIN gw : gw[i].table = "exhibits"}

C20_NoToolRepeatsRequest == \A i, j \in DOMAIN gw : gw[i] = gw[j] => i = j


-----------------------------------------------------------------------------
(* Claims about what the tools send to the gateway *)

\* every request of the last call reads rows or calls a procedure
RequestsRead ==
    \A i \in DOMAIN gw :
        \/ gw[i].verb = "GET" /\ gw[i].table \notin RpcProcedures
        \/ gw[i].verb = "POST" /\ gw[i].table \in RpcProcedures

\* C21: the system is read-only against the gateway: every request of every
\* tool call is a row read (GET) or a call of a read procedure (POST to
\* rpc/), and no sequence of tool calls changes the upstream tables
C21_ReadOnly == [][RequestsRead' /\ db' = db]_vars

\* C21 witness: with rows upstream, part_002 search was answered after a
\* procedure call and a table read
C21_Witness ==
    /\ Answered /\ rpcReq.worker = "part_002" /\ rpcReq.method = "tools/call"
    /\ rpcReq.name = "search" /\ rpcReq.up = "ok"
    /\ db = RpcRecords /\ env.key
    /\ Len(gw) >= 1 /\ gw[1].verb = "POST" /\ gw[1].table = "rpc/vector_search"


-----------------------------------------------------------------------------
(* SpecProxy: src/burns-legal-enhanced.ts, whose tools forward the call to a
   deployed worker with one POST of a tools/call request *)

\* the tools forwarded here, and the workers of this repository that answer
\* a POST on / and may be the one deployed at the forwarding address
ProxiedTools == {"search", "fetch_exhibit"}
ProxyUpstreams == {"part_002", "fixed"}
ProxyArgs == {"given", "empty"}

\* the text of the content block a worker builds around a handler's value:
\* part_002 line 164 passes a string through and serialises anything else;
\* fixed.js line 268 serialises; JSON.stringify(undefined) leaves no text
ContentText(w, out) ==
    IF out.value = "undefined" THEN Absent
    ELSE IF w = "part_002" /\ out.value = "string" THEN "plain"
    ELSE "json"

\* the answer of the deployed worker to the forwarded request
UpstreamPost(r, e, d, h) ==
    IF r.worker = "part_002" THEN EnhancedPost(r, e, d, h) ELSE FixedFetch(r)

ProxyReturn(blocks, text) == [kind |-> "return", text |-> text, blocks |-> blocks]
ProxyThrow == [kind |-> "throw", text |-> Absent, blocks |-> 0]

\* burns-legal-enhanced.ts, the handler of a tool: `const data = await
\* response.json(); return data.result || { content: [{ type: "text", text:
\* "<tool> failed" }] }`
BurnsLegalEnhanced_proxy(r, x) ==
    \* fetch() rejects
    IF r.up = "net" THEN ProxyThrow
    \* response.json() of a body that is not JSON
    ELSE IF x.resp.kind # "envelope" THEN ProxyThrow
    ELSE IF x.resp.hasResult THEN ProxyReturn(1, ContentText(r.worker, x.out))
    ELSE ProxyReturn(1, "plain")

ProxyDone(r, x) ==
    /\ call' = [tool |-> r.name, impl |-> "enhanced", args |-> r.args, up |-> r.up,
                upstream |-> r.worker]
    /\ rpcReq' = r
    /\ rpcResp' = x.resp
    /\ ret' = BurnsLegalEnhanced_proxy(r, x)
    /\ gw' = x.out.gw
    /\ UNCHANGED <<env, db, hits, lookups, ran, served>>

ProxyCall ==
    \E w \in ProxyUpstreams, n \in ProxiedTools, a \in ProxyArgs, u \in Transport :
        ProxyDone(Request(w, "object", "1", "tools/call", TRUE, n, a, FALSE, u),
                  UpstreamPost(Request(w, "object", "1", "tools/call", TRUE, n, a, FALSE, u),
                               env, db, hits))

InitProxy ==
    /\ env \in Envs
    /\ db \in RpcStores
    /\ hits = IF db = {} THEN NoHits ELSE [p \in SearchPaths |-> 1]
    /\ call = NoCall
    /\ ret = NoRet
    /\ gw = <<>>
    /\ lookups = <<>>
    /\ rpcReq = NoRpc
    /\ rpcResp = NoRpc
    /\ ran = <<>>
    /\ served = <<>>

NextProxy == ProxyCall

SpecProxy == InitProxy /\ [][NextProxy]_vars

ProxyAnswered == call.impl = "enhanced" /\ ret.kind = "return"

\* C22: every successful tools/call result is exactly one text block whose
\* text is the JSON serialisation of the handler's return value; no text that
\* is not JSON is returned as the result
C22_OneJsonTextBlock == ProxyAnswered => (ret.blocks = 1 /\ ret.text = "json")

\* C22 where the deployed worker answered with a result: its block is passed on
C22_JsonWhenUpstreamHasResult ==
    (ProxyAnswered /\ rpcResp.hasResult) => (ret.blocks = 1 /\ ret.text = "json")


-----------------------------------------------------------------------------
(* Claims about the fact lookup of fetch *)

\* the requests of the last call to the facts table
FactRequests == {i \in DOMAIN gw : gw[i].table = "facts"}

\* a fetch of an id that /^fact_/i recognises, which reached the fact lookup
FactLookupMade == call.tool = "fetch" /\ IdShape[call.id].fact /\ FactRequests # {}

\* the id without its five-character prefix
WithoutFactPrefix(id) == SubSeq(id, 6, Len(id))

\* C23: for every id that fetch recognises as fact-kind, whatever the case of
\* its fact_ prefix, the fact lookup asks for the raw id and for the id with
\* the prefix stripped
C23_FactLookupRawAndStripped ==
    FactLookupMade =>
        \A i \in FactRequests : {call.id, WithoutFactPrefix(call.id)} \subseteq gw[i].vals

\* C23 for ids whose prefix is written in lower case
C23_FactLookupLowerCasePrefix ==
    (FactLookupMade /\ StartsWith(call.id, <<"f","a","c","t","_">>)) =>
        \A i \in FactRequests : {call.id, WithoutFactPrefix(call.id)} \subseteq gw[i].vals


-----------------------------------------------------------------------------
(* SpecRiskAll: analyze_claim_risk in part_002, part_001 and
   burns-legal-enhanced-full.ts, given the outcome of the claims request *)

\* the claims request: a row, no row, a non-2xx status, a failed connection
ClaimLookups == {"row", "empty", "http", "net"}

RiskThrow(message) ==
    [error |-> message, kind |-> "throw", financial |-> 0, legal |-> 0,
     overall_risk |-> Absent]
\* part_001 lines 424-430, 435-441 and full.ts lines 426-431
RiskClaimNotFound ==
    [error |-> "Claim not found", kind |-> "return", financial |-> 5 * Tenth,
     legal |-> 5 * Tenth, overall_risk |-> "unknown"]

\* part_002 TOOL_IMPL.analyze_claim_risk over fetchClaim: a rejected fetch()
\* is not caught, `if (!res.ok) return null`, `data[0] || null`
TOOL_IMPL_analyze_claim_risk_scores(lookup, cl) ==
    IF lookup = "net" THEN RiskThrow(NetworkMessage)
    ELSE IF lookup = "row" THEN RiskScores(cl)
    ELSE RiskUnknown

\* part_001 "analyze_claim_risk"
BurnsLegalEnhancedComplete_analyze_claim_risk(lookup, cl) ==
    IF lookup = "net" THEN RiskThrow(NetworkMessage)
    ELSE IF lookup = "row" THEN RiskScores(cl)
    ELSE RiskClaimNotFound

\* full.ts "analyze_claim_risk": `if (!res.ok || !(await res.json())[0])`
\* reads the body, and `const cl = (await res.json())[0]` reads it again
BurnsLegalEnhanced_analyze_claim_risk(lookup, cl) ==
    IF lookup = "net" THEN RiskThrow(NetworkMessage)
    ELSE IF lookup = "row" THEN RiskThrow("Body has already been used")
    ELSE RiskClaimNotFound

RiskDone(impl, lookup, cl, out) ==
    /\ call' = [claim |-> cl, tool |-> "analyze_claim_risk", impl |-> impl, lookup |-> lookup]
    /\ ret' = out
    /\ UNCHANGED <<env, db, hits, gw, lookups, rpcReq, rpcResp, ran, served>>

\* the outcomes of the claims request together with the row it brought
RiskInputs ==
    {[claim |-> cl, lookup |-> "row"] : cl \in ClaimRows}
        \cup {[claim |-> NoClaimRow, lookup |-> l] : l \in ClaimLookups \ {"row"}}

RiskEnhanced ==
    \E i \in RiskInputs :
        RiskDone("part_002", i.lookup, i.claim,
                 TOOL_IMPL_analyze_claim_risk_scores(i.lookup, i.claim))

RiskComplete ==
    \E i \in RiskInputs :
        RiskDone("part_001", i.lookup, i.claim,
                 BurnsLegalEnhancedComplete_analyze_claim_risk(i.lookup, i.claim))

RiskFull ==
    \E i \in RiskInputs :
        RiskDone("full", i.lookup, i.claim,
                 BurnsLegalEnhanced_analyze_claim_risk(i.lookup, i.claim))

NextRiskAll == RiskEnhanced \/ RiskComplete \/ RiskFull

SpecRiskAll == InitRisk /\ [][NextRiskAll]_vars

RiskCalled == call.tool = "analyze_claim_risk"

ReturnsUnknown ==
    /\ ret.kind = "return" /\ ret.overall_risk = "unknown"
    /\ ret.financial = 5 * Tenth /\ ret.legal = 5 * Tenth /\ ret.error # Absent

ReturnsAssessment ==
    /\ ret.kind = "return" /\ ret.overall_risk \in {"low", "moderate", "high"}
    /\ ret.overall_risk = RiskScores(call.claim).overall_risk
    /\ ret.financial = RiskScores(call.claim).financial
    /\ ret.legal = RiskScores(call.claim).legal
    /\ ret.error = Absent

\* C24: in part_002, part_001 and full.ts, analyze_claim_risk returns
\* overall_risk "unknown" with scores 0.5 / 0.5 and an error if and only if
\* the claim lookup fails or finds no record, and for every claim record the
\* gateway returns it yields an assessment with overall_risk low, moderate or
\* high derived from that record
C24_UnknownIffNoRecord ==
    RiskCalled =>
        /\ ReturnsUnknown <=> (call.lookup # "row")
        /\ (call.lookup = "row") => ReturnsAssessment

\* C24 for part_002 and part_001 when the connection to the gateway holds
C24_UnknownIffNoRecordConnected ==
    (RiskCalled /\ call.impl \in {"part_002", "part_001"} /\ call.lookup # "net") =>
        /\ ReturnsUnknown <=> (call.lookup # "row")
        /\ (call.lookup = "row") => ReturnsAssessment


-----------------------------------------------------------------------------
(* SpecNormalize: the id and the snippet source that safeVector and
   safeKeyword take from an upstream row *)

\* a member of a row: null, the empty string, or a one-character value that
\* names the column it came from
ColumnValues(ch) ==
    {[present |-> FALSE, text |-> <<>>], [present |-> TRUE, text |-> <<>>],
     [present |-> TRUE, text |-> <<ch>>]}

UpstreamRows ==
    [id : ColumnValues("i"), content : ColumnValues("c"), description : ColumnValues("d"),
     exhibit_id : ColumnValues("e"), source_id : ColumnValues("s")]

\* safeVector: r.exhibit_id || r.id || r.source_id
VectorId(r) == Either(Either(r.exhibit_id, r.id), r.source_id)
\* safeKeyword: d.id || d.exhibit_id
KeywordId(r) == Either(r.id, r.exhibit_id)

NormalizeDone(path, row, id, snippet) ==
    /\ call' = [tool |-> "search", row |-> row, impl |-> "part_002", path |-> path]
    /\ ret' = [id |-> id.text, kind |-> "return", snippet |-> snippet]
    /\ UNCHANGED <<env, db, hits, gw, lookups, rpcReq, rpcResp, ran, served>>

NormalizeVectorRow ==
    \E r \in UpstreamRows : NormalizeDone("vector", r, VectorId(r), VectorSnippet(r))

NormalizeKeywordRow ==
    \E r \in UpstreamRows : NormalizeDone("keyword", r, KeywordId(r), KeywordSnippet(r))

NextNormalize == NormalizeVectorRow \/ NormalizeKeywordRow

SpecNormalize == InitSnippet /\ [][NextNormalize]_vars

RowNormalized == call.tool = "search" /\ ret.kind = "return"

\* the first candidate that has a value, the empty text when none has
RECURSIVE FirstWithValue(_)
FirstWithValue(cands) ==
    IF cands = <<>> THEN <<>>
    ELSE IF Head(cands).present /\ Head(cands).text # <<>> THEN Head(cands).text
    ELSE FirstWithValue(Tail(cands))

FixedOrder ==
    /\ ret.id = FirstWithValue(<<call.row.exhibit_id, call.row.id, call.row.source_id>>)
    /\ ret.snippet = FirstWithValue(<<call.row.content, call.row.description>>)

\* C25: each output field is the first candidate with a value in one fixed
\* order, id from exhibit_id, id, source_id and snippet from content, then
\* description, and that order is the same for rows of the vector path and
\* rows of the keyword path
C25_OneCandidateOrder == RowNormalized => FixedOrder

\* C25 for the rows of the vector path
C25_CandidateOrderVector == (RowNormalized /\ call.path = "vector") => FixedOrder


-----------------------------------------------------------------------------
(* SpecSession: the session handling of burns-legal-enhanced-fixed.js *)

\* the number of initialize requests followed
MaxSessions == 2

\* the values crypto.randomUUID() gives
SessionIds == {"uuid-1", "uuid-2"}
\* the Mcp-Session-Id header of a request: not sent, sent empty, an id the
\* worker may give out, or an id the client made up
SessionHeaders == {Absent, ""} \cup SessionIds \cup {"made-up"}

\* a check that lets every request through
HasSessionAlways(header) == TRUE

\* `const sessionId = request.headers.get('Mcp-Session-Id'); if (!sessionId)`
HasSession(header) == header \notin {Absent, ""}

SessionRequests == {r \in FixedRequests : r.session /\ r.id \in {Absent, "1"}}

\* the request as default.fetch sees it
WithHeader(r, header) == [r EXCEPT !.session = HasSession(header)]

\* the Mcp-Session-Id header of the response: the new id after initialize,
\* the request's own after tools/list and tools/call, none on the others
SessionDone(r, header, issued, x) ==
    /\ rpcReq' = r
    /\ rpcResp' = x.resp
    /\ ran' = x.ran
    /\ ret' = x.out
    /\ call' = [tool |-> r.name, impl |-> "fixed", header |-> header, issued |-> issued]
    /\ served' = IF issued = Absent THEN served ELSE served \cup {issued}
    /\ UNCHANGED <<env, db, hits, gw, lookups>>

Initialize ==
    /\ Cardinality(served) < MaxSessions
    /\ \E r \in SessionRequests, header \in SessionHeaders, id \in SessionIds \ served :
        /\ r.method = "initialize" /\ r.body = "object" /\ r.hasParams
        /\ SessionDone(WithHeader(r, header), header, id, FixedFetch(WithHeader(r, header)))

OtherRequest ==
    \E r \in SessionRequests, header \in SessionHeaders :
        /\ ~(r.method = "initialize" /\ r.body = "object" /\ r.hasParams)
        /\ SessionDone(WithHeader(r, header), header, Absent, FixedFetch(WithHeader(r, header)))

InitSession ==
    /\ env \in Envs
    /\ db = {}
    /\ hits = NoHits
    /\ call = NoCall
    /\ ret = NoOut
    /\ gw = <<>>
    /\ lookups = <<>>
    /\ rpcReq = NoRpc
    /\ rpcResp = NoRpc
    /\ ran = <<>>
    /\ served = {}

NextSession == Initialize \/ OtherRequest

SpecSession == InitSession /\ [][NextSession]_vars

\* a request whose body gave a method other than initialize
NotInitialize == Answered /\ rpcReq.body = "object" /\ rpcReq.method # "initialize"

\* C26: in burns-legal-enhanced-fixed.js every request with a method other
\* than initialize that lacks an Mcp-Session-Id header is rejected with the
\* JSON-RPC error -32600, and neither the tool list is built nor a tool run
C26_NoSessionRejected ==
    (NotInitialize /\ call.header \in {Absent, ""}) =>
        /\ rpcResp.kind = "envelope" /\ rpcResp.hasError /\ ~rpcResp.hasResult
        /\ rpcResp.code = INVALID_REQUEST
        /\ rpcResp.tools = <<>> /\ ran = <<>> /\ ret.kind = "none"

\* C26 witness: a tools/call of a registered tool without the header, after
\* an initialize gave out a session id, was rejected
C26_Witness ==
    /\ NotInitialize /\ call.header = Absent /\ served # {}
    /\ rpcReq.method = "tools/call" /\ rpcReq.name = "search" /\ rpcReq.args = "given"
    /\ rpcResp.code = INVALID_REQUEST /\ ran = <<>>

\* tools/list or tools/call was served
ToolsServed ==
    /\ NotInitialize /\ rpcReq.method \in {"tools/list", "tools/call"}
    /\ (rpcResp.tools # <<>> \/ ran # <<>>)

\* C27: tools/list or tools/call is served only after initialize: the
\* session id the request carries is one that an earlier initialize response
\* gave out
C27_ServedOnlyIssuedSession == ToolsServed => call.header \in served

\* C27 as far as the worker checks it: tools/list or tools/call is served
\* only to a request that carries some session id
C27_ServedOnlyWithSomeSession == ToolsServed => call.header \notin {Absent, ""}


-----------------------------------------------------------------------------
(* SpecRoute: default.fetch of part_002 and of src/index.ts, from the HTTP
   request to the branch that answers it *)

HttpVerbs == {"GET", "POST"}
Paths == {"/", "/mcp", "/sse", "/other"}
\* the Accept header: not sent, or a list of media types
AcceptHeaders ==
    {Absent, "application/json", "text/event-stream", "application/json, text/event-stream"}

\* accept.includes("text/event-stream")
IncludesEventStream(accept) ==
    accept \in {"text/event-stream", "application/json, text/event-stream"}

\* new Response(readable, { "Content-Type": "text/event-stream" })
Stream ==
    [status |-> 200, id |-> Absent, kind |-> "stream", tools |-> <<>>,
     jsonrpc |-> Absent, hasResult |-> FALSE, hasError |-> FALSE, code |-> 0]
\* a JSON document that is not a JSON-RPC envelope
Page(status) ==
    [status |-> status, id |-> Absent, kind |-> "page", tools |-> <<>>,
     jsonrpc |-> Absent, hasResult |-> FALSE, hasError |-> FALSE, code |-> 0]

\* part_002 default.fetch past OPTIONS and the discovery document
EnhancedFetch(verb, path, accept, r, e, d, h) ==
    IF path \in {"/sse", "/mcp", "/"} /\ accept # Absent /\ IncludesEventStream(accept)
    THEN Handled(Stream, NoOut, <<>>)
    ELSE IF path \in {"/", "/mcp"}
         THEN IF verb = "GET" THEN Handled(Page(200), NoOut, <<>>)
              ELSE IF verb = "POST" THEN EnhancedPost(r, e, d, h)
              ELSE Handled(Page(405), NoOut, <<>>)
    ELSE Handled(Page(404), NoOut, <<>>)

\* src/index.ts default.fetch past OPTIONS, /health and /test
IndexFetch(verb, path, accept, r, e, d, h) ==
    IF path = "/sse" \/ (path = "/mcp" /\ accept # Absent /\ IncludesEventStream(accept))
    THEN Handled(Stream, NoOut, <<>>)
    ELSE IF path = "/mcp" THEN McpEndpoint(r, e, d, h)
    ELSE Handled(Page(200), NoOut, <<>>)

\* the bodies followed here: one of every method, a registered tool and an
\* unknown one; a GET has no body to parse
RouteBodies(w, verb) ==
    {r \in (IF w = "part_002" THEN EnhancedRequests ELSE IndexRequests) :
        /\ r.up = "ok"
        /\ IF verb = "GET" THEN r.body = "malformed"
           ELSE /\ r.body = "object" /\ r.id = "1" /\ r.hasParams /\ r.args # "empty"
                /\ r.name \in {Absent, "fetch_exhibit", "nope"}}

RouteDone(w, verb, path, accept, r, x) ==
    /\ call' = [verb |-> verb, tool |-> r.name, impl |-> w, path |-> path, accept |-> accept]
    /\ rpcReq' = r
    /\ rpcResp' = x.resp
    /\ ran' = x.ran
    /\ ret' = x.out
    /\ gw' = x.out.gw
    /\ UNCHANGED <<env, db, hits, lookups, served>>

RouteEnhanced ==
    \E verb \in HttpVerbs, path \in Paths, accept \in AcceptHeaders :
        \E r \in RouteBodies("part_002", verb) :
            RouteDone("part_002", verb, path, accept, r,
                      EnhancedFetch(verb, path, accept, r, env, db, hits))

RouteIndex ==
    \E verb \in HttpVerbs, path \in Paths, accept \in AcceptHeaders :
        \E r \in RouteBodies("index", verb) :
            RouteDone("index", verb, path, accept, r,
                      IndexFetch(verb, path, accept, r, env, db, hits))

InitRoute ==
    /\ env \in Envs
    /\ db = RpcRecords
    /\ hits = [p \in SearchPaths |-> 1]
    /\ call = NoCall
    /\ ret = NoOut
    /\ gw = <<>>
    /\ lookups = <<>>
    /\ rpcReq = NoRpc
    /\ rpcResp = NoRpc
    /\ ran = <<>>
    /\ served = <<>>

NextRoute == RouteEnhanced \/ RouteIndex

SpecRoute == InitRoute /\ [][NextRoute]_vars

\* a POST to / or /mcp with a JSON-RPC request that has an id
RpcPosted ==
    /\ Answered /\ call.verb = "POST" /\ call.path \in {"/", "/mcp"}
    /\ rpcReq.body = "object" /\ rpcReq.id = "1"

\* the answer is a JSON-RPC envelope
EnvelopeAnswered == rpcResp.kind = "envelope" /\ rpcResp.jsonrpc = "2.0"

\* C29: every POST to / or /mcp that carries a JSON-RPC request with an id
\* is answered with a JSON-RPC envelope, whatever its Accept header
C29_PostAnsweredWithEnvelope == RpcPosted => EnvelopeAnswered

\* C29 for the requests whose Accept header does not name text/event-stream,
\* on the paths each worker serves JSON-RPC on
C29_PostWithoutEventStream ==
    (/\ RpcPosted
     /\ call.accept \in {Absent, "application/json"}
     /\ (call.impl = "index" => call.path = "/mcp")) => EnvelopeAnswered


-----------------------------------------------------------------------------
(* SpecSse: the event streams of src/index.ts.  Time is counted for every
   stream from its opening, in keep-alive periods. *)

\* the streams followed at once
MaxStreams == 2
Streams == 1 .. MaxStreams

\* setInterval(..., 30000) and setTimeout(..., 300000)
KeepAliveMs == 30000
TimeoutMs == 300000
TimeoutTicks == TimeoutMs \div KeepAliveMs

NoStream == [state |-> "none", interval |-> "none", clock |-> 0, written |-> 0]

\* const writer = writable.getWriter(); const interval = setInterval(...)
Opened == [state |-> "open", interval |-> "armed", clock |-> 0, written |-> 0]

\* a timeout callback that closes the writer and leaves the interval running
TimeoutFiredKeepingInterval(st) == [st EXCEPT !.state = "closed"]

\* the callback of setTimeout: clearInterval(interval); writer.close()
TimeoutFired(st) == [st EXCEPT !.interval = "cleared", !.state = "closed"]

\* the callback of setInterval: writer.write(":keepalive"); a write to a
\* closed writer is rejected and adds nothing to the stream
KeepAliveFired(st) ==
    IF st.state = "open" THEN [st EXCEPT !.written = st.written + 1] ELSE st

\* the interval has come round written + 1 times when the clock shows more
\* periods than keep-alives were sent
IntervalDue(st) == st.interval = "armed" /\ st.written < st.clock
TimeoutDue(st) == st.state = "open" /\ st.clock >= TimeoutTicks

SseDone(s, st) ==
    /\ served' = [served EXCEPT ![s] = st]
    /\ UNCHANGED <<env, db, hits, call, ret, gw, lookups, rpcReq, rpcResp, ran>>

\* a request without a body
NoBody == Request("index", "malformed", Absent, Absent, FALSE, Absent, "absent", FALSE, "ok")

\* a request that default.fetch answers with a stream
OpenSse(s) ==
    /\ served[s].state = "none"
    /\ \E verb \in HttpVerbs, path \in Paths, accept \in AcceptHeaders :
        /\ IndexFetch(verb, path, accept, NoBody, env, db, hits).resp.kind = "stream"
        /\ served' = [served EXCEPT ![s] = Opened]
        /\ call' = [tool |-> "none", impl |-> "index", path |-> path, accept |-> accept]
        /\ UNCHANGED <<env, db, hits, ret, gw, lookups, rpcReq, rpcResp, ran>>

\* one period passes once the callbacks that were due have run
Advance(s) ==
    /\ served[s].state # "none"
    /\ served[s].clock <= TimeoutTicks
    /\ ~IntervalDue(served[s]) /\ ~TimeoutDue(served[s])
    /\ SseDone(s, [served[s] EXCEPT !.clock = served[s].clock + 1])

KeepAlive(s) ==
    /\ IntervalDue(served[s])
    /\ SseDone(s, KeepAliveFired(served[s]))

Timeout(s) ==
    /\ TimeoutDue(served[s])
    /\ SseDone(s, TimeoutFired(served[s]))

InitSse ==
    /\ env = [key |-> TRUE, url |-> TRUE]
    /\ db = {}
    /\ hits = NoHits
    /\ call = NoCall
    /\ ret = NoOut
    /\ gw = <<>>
    /\ lookups = <<>>
    /\ rpcReq = NoRpc
    /\ rpcResp = NoRpc
    /\ ran = <<>>
    /\ served = [s \in Streams |-> NoStream]

NextSse == \E s \in Streams : OpenSse(s) \/ Advance(s) \/ KeepAlive(s) \/ Timeout(s)

\* the event loop runs a timer callback that is due, and time passes
FairSse == \A s \in Streams : WF_vars(Advance(s)) /\ WF_vars(KeepAlive(s)) /\ WF_vars(Timeout(s))

SpecSse == InitSse /\ [][NextSse]_vars /\ FairSse

-----------------------------------------------------------------------------
(* Claims about the tool registry of the three dispatchers *)

\* a tools/call with an id and params
ToolCalled ==
    /\ Answered /\ rpcReq.body = "object" /\ rpcReq.method = "tools/call"
    /\ rpcReq.id = "1" /\ rpcReq.hasParams

\* the called name is one that tools/list of the called worker returns
CalledIsListed ==
    \E i \in DOMAIN ListedTools(rpcReq.worker) : ListedTools(rpcReq.worker)[i] = rpcReq.name

\* every listed tool is callable: called with its arguments (and with a
\* session where the worker asks for one) its handler runs; and only a
\* listed name reaches a handler
ListedIsDispatched ==
    /\ ran # <<>> => CalledIsListed
    /\ (CalledIsListed /\ rpcReq.args = "given"
            /\ (rpcReq.worker = "fixed" => rpcReq.session))
        => ran = <<rpcReq.name>>

\* C30: in part_002, src/index.ts and burns-legal-enhanced-fixed.js the set
\* of names tools/list returns equals the set of names tools/call dispatches
\* to a handler: every listed tool is callable and no name outside the list
\* reaches a handler
C30_ListedEqualsDispatched == ToolCalled => ListedIsDispatched

\* C30 for src/index.ts and burns-legal-enhanced-fixed.js, whose tools/call
\* is a switch over the names
C30_ListedEqualsSwitchCases ==
    (ToolCalled /\ rpcReq.worker \in {"index", "fixed"}) => ListedIsDispatched

\* C30 for part_002 and the names that are not members of Object.prototype
C30_ListedEqualsOwnKeys ==
    (ToolCalled /\ rpcReq.worker = "part_002" /\ rpcReq.name # "constructor")
        => ListedIsDispatched

====
